---- MODULE Spec2Model ----
(***************************************************************************)
(* Model of the zotcraft synchronisation engine.                           *)
(*                                                                         *)
(*   src/src/app/api/sync-now/route.ts   POST: one sync pass, streamed     *)
(*   src/src/lib/craft.ts                CraftClient (destination)         *)
(*   src/src/lib/zotero.ts               ZoteroClient (source)             *)
(*   src/src/app/api/zotero/groups/route.ts  Home: syncNow / stopSync      *)
(*                                                                         *)
(* A pass is an async function: it runs to completion between two awaits.  *)
(* Each action below is one such run: it starts where an awaited external  *)
(* call returns (its outcome is the action's input) and ends at the next   *)
(* await, or at the close of the stream.                                   *)
(***************************************************************************)
EXTENDS Integers, Sequences, FiniteSets, TLC

\* ------------------------------------------------------------------ bounds
MaxItems == 3        \* longest source batch
MaxPasses == 2       \* passes of one run of the model
MaxRepeatLen == 1    \* longest batch for which a pass after the first is explored
MaxClientItems == 2  \* longest batch in the runs of the page together with the route
MaxSyncs == 2        \* invocations of syncNow in those runs
MaxStrLen == 2       \* longest string given to checkItemExists on its own
MaxListing == 1      \* longest listing given to checkItemExists on its own
MaxTags == 2         \* most tags of a record given to the field mapper on its own
MaxGroups == 2       \* most groups in the list given to getGroups on its own
MaxEvents == 2       \* most lines of a response given to the stream reader on its own

\* ----------------------------------------------------------------- strings
\* A string is a sequence of characters; " " is the whitespace character.
Whitespace == {" "}

RECURSIVE TrimStart(_)
TrimStart(s) ==
    IF s = <<>> THEN <<>>
    ELSE IF Head(s) \in Whitespace THEN TrimStart(Tail(s)) ELSE s

RECURSIVE TrimEnd(_)
TrimEnd(s) ==
    IF s = <<>> THEN <<>>
    ELSE IF s[Len(s)] \in Whitespace THEN TrimEnd(SubSeq(s, 1, Len(s) - 1)) ELSE s

\* Mutant of Trim: only the end of the string is trimmed.
TrimEndOnly(s) == TrimEnd(s)

\* String.prototype.trim as used by checkItemExists
Trim(s) == TrimEnd(TrimStart(s))

Untitled == <<"U", "n", "t", "i", "t", "l", "e", "d">>

\* A title the source did not set (undefined or '') is the empty string.
NoTitle == <<>>

\* ------------------------------------------------------- string operations
Digit == <<"0", "1", "2", "3", "4", "5", "6", "7", "8", "9">>
Uppercase == <<"A", "B", "C", "D", "E", "F", "G", "H", "I", "J", "K", "L", "M",
               "N", "O", "P", "Q", "R", "S", "T", "U", "V", "W", "X", "Y", "Z">>
Lowercase == <<"a", "b", "c", "d", "e", "f", "g", "h", "i", "j", "k", "l", "m",
               "n", "o", "p", "q", "r", "s", "t", "u", "v", "w", "x", "y", "z">>

IndexIn(c, alphabet) == CHOOSE i \in DOMAIN alphabet : alphabet[i] = c
IsIn(c, alphabet) == \E i \in DOMAIN alphabet : alphabet[i] = c

\* String.prototype.toLowerCase and toUpperCase
toLowerCase(s) ==
    [i \in 1..Len(s) |->
        IF IsIn(s[i], Uppercase) THEN Lowercase[IndexIn(s[i], Uppercase)] ELSE s[i]]
toUpperCase(s) ==
    [i \in 1..Len(s) |->
        IF IsIn(s[i], Lowercase) THEN Uppercase[IndexIn(s[i], Lowercase)] ELSE s[i]]

\* Array.prototype.join
RECURSIVE Join(_, _)
Join(parts, sep) ==
    IF parts = <<>> THEN <<>>
    ELSE IF Len(parts) = 1 THEN parts[1]
    ELSE parts[1] \o sep \o Join(Tail(parts), sep)

\* String.prototype.split on a one-character separator
RECURSIVE Split(_, _)
Split(s, c) ==
    LET hits == { i \in 1..Len(s) : s[i] = c } IN
    IF hits = {} THEN << s >>
    ELSE LET i == CHOOSE h \in hits : \A g \in hits : h <= g IN
         << SubSeq(s, 1, i - 1) >> \o Split(SubSeq(s, i + 1, Len(s)), c)

\* parseInt(s, 10): leading whitespace and one sign are skipped, then the
\* longest run of digits (DigitsOf holds just that run) is read; without a
\* digit the result is NaN.
Unsigned(s) ==
    LET t == TrimStart(s) IN
    IF t # <<>> /\ Head(t) \in {"+", "-"} THEN Tail(t) ELSE t
LeadingDigits(s) ==
    LET n == CHOOSE k \in 0..Len(s) :
                /\ \A i \in 1..k : IsIn(s[i], Digit)
                /\ k < Len(s) => ~IsIn(s[k + 1], Digit)
    IN SubSeq(s, 1, n)
Decimal(d) ==
    LET upTo[n \in 0..Len(d)] ==
            IF n = 0 THEN 0 ELSE 10 * upTo[n - 1] + (IndexIn(d[n], Digit) - 1)
    IN upTo[Len(d)]
DigitsOf(s) == { LeadingDigits(u) : u \in {Unsigned(s)} }
parseIntIsNaN(s) == \A d \in DigitsOf(s) : d = <<>>
parseInt(s) ==
    LET t == TrimStart(s) IN
    (IF t # <<>> /\ Head(t) = "-" THEN -1 ELSE 1)
        * (CHOOSE n \in { Decimal(d) : d \in DigitsOf(s) } : TRUE)

\* ------------------------------------------------------- derived fields
UnknownAuthor ==
    <<"U", "n", "k", "n", "o", "w", "n", " ", "A", "u", "t", "h", "o", "r">>

\* ZoteroClient.formatAuthors: a creator has a name, or a first and a last
\* name; "" stands for a part that is not set.
CreatorName(c) ==
    IF c.name # <<>> THEN c.name ELSE Trim(c.firstName \o <<" ">> \o c.lastName)
formatAuthors(creators) ==
    IF creators = <<>> THEN UnknownAuthor
    ELSE Join([i \in 1..Len(creators) |-> CreatorName(creators[i])], <<",", " ">>)

\* ZoteroClient.extractYear: the first four digits in a row, else the string
extractYear(dateString) ==
    LET at == { i \in 1..(Len(dateString) - 3) :
                  \A j \in i..(i + 3) : IsIn(dateString[j], Digit) } IN
    IF at = {} THEN dateString
    ELSE LET i == CHOOSE h \in at : \A g \in at : h <= g IN
         SubSeq(dateString, i, i + 3)

\* formatItemType: a space before each capital, the first character put in
\* upper case, then trim
RECURSIVE SpaceCapitals(_)
SpaceCapitals(s) ==
    IF s = <<>> THEN <<>>
    ELSE (IF IsIn(Head(s), Uppercase) THEN <<" ", Head(s)>> ELSE << Head(s) >>)
         \o SpaceCapitals(Tail(s))
formatItemType(type) ==
    LET spaced == SpaceCapitals(type) IN
    IF type = <<>> THEN <<>>
    ELSE Trim(toUpperCase(<< Head(spaced) >>) \o Tail(spaced))

\* t.tag.replace(/\s+/g, '_'): each run of whitespace becomes one underscore
RECURSIVE UnderscoreRuns(_)
UnderscoreRuns(s) ==
    IF s = <<>> THEN <<>>
    ELSE IF Head(s) \in Whitespace
    THEN <<"_">> \o UnderscoreRuns(TrimStart(s))
    ELSE << Head(s) >> \o UnderscoreRuns(Tail(s))
formattedTags(rawTags) ==
    [i \in 1..Len(rawTags) |-> <<"#">> \o UnderscoreRuns(rawTags[i])]

\* new Date(dateAdded).toISOString().split('T')[0] of a timestamp that parses
IsoDate == <<"2", "0", "2", "1", "-", "0", "3", "-", "0", "4">>
dateAddedOf(record) == IF record.dateAdded = "none" THEN <<>> ELSE IsoDate

\* t.replace('#', ''): the first '#' is removed
WithoutHash(t) ==
    LET hits == { i \in 1..Len(t) : t[i] = "#" } IN
    IF hits = {} THEN t
    ELSE LET i == CHOOSE h \in hits : \A g \in hits : h <= g IN
         SubSeq(t, 1, i - 1) \o SubSeq(t, i + 1, Len(t))

\* ------------------------------------------------------- the Property Map
\* A value of the map, with the shape JSON gives it.
Num(n) == [shape |-> "number", val |-> n]
Str(s) == [shape |-> "string", val |-> s]
Arr(a) == [shape |-> "array", val |-> a]

EmptyMap == [k \in {} |-> Str(<<>>)]
Put(properties, propKey, value) ==
    [k \in DOMAIN properties \cup {propKey} |->
        IF k = propKey THEN value ELSE properties[k]]

ToRead == <<"T", "o", " ", "R", "e", "a", "d">>
Waiting == <<"w", "a", "i", "t", "i", "n", "g">>

\* options.find(opt => opt.toLowerCase() === s.toLowerCase()): the options
\* that match, in order; find returns the first, if any.
Matches(options, s) ==
    SelectSeq(options, LAMBDA opt : toLowerCase(opt) = toLowerCase(s))

\* Mutant of setChoice: a value that is no option is dropped, the seed of
\* the reading status too.
setChoiceNoRemap(properties, fieldName, fieldSchema, strValue) ==
    LET validOption == Matches(fieldSchema.options, strValue) IN
    IF validOption # <<>>
    THEN IF fieldSchema.type = "select"
         THEN Put(properties, fieldSchema.key, Str(validOption[1]))
         ELSE Put(properties, fieldSchema.key, Arr(<< validOption[1] >>))
    ELSE properties

\* setProp of a select or multiSelect field
setChoice(properties, fieldName, fieldSchema, strValue) ==
    LET validOption == Matches(fieldSchema.options, strValue)
        waitingOpt == Matches(fieldSchema.options, Waiting) IN
    IF validOption # <<>>
    THEN IF fieldSchema.type = "select"
         THEN Put(properties, fieldSchema.key, Str(validOption[1]))
         ELSE Put(properties, fieldSchema.key, Arr(<< validOption[1] >>))
    ELSE IF fieldName = "Reading status" /\ strValue = ToRead /\ waitingOpt # <<>>
    THEN Put(properties, fieldSchema.key, Str(waitingOpt[1]))
    ELSE properties

\* setProp(fieldName, value), value a string: the map after the call
setProp(schemaMap, properties, fieldName, value) ==
    IF fieldName \notin DOMAIN schemaMap \/ value = <<>> THEN properties
    ELSE LET fieldSchema == schemaMap[fieldName] IN
    CASE fieldSchema.type = "number" ->
            IF parseIntIsNaN(value) THEN properties
            ELSE Put(properties, fieldSchema.key, Num(parseInt(value)))
      [] fieldSchema.type \in {"url", "date", "text", "richText"} ->
            Put(properties, fieldSchema.key, Str(value))
      [] fieldSchema.type \in {"select", "multiSelect"} ->
            setChoice(properties, fieldName, fieldSchema, value)
      [] OTHER ->
            IF fieldSchema.key = "tags"
            THEN IF \E i \in 1..Len(value) : value[i] = ","
                 THEN Put(properties, fieldSchema.key,
                          Arr(LET parts == Split(value, ",") IN
                              [i \in 1..Len(parts) |-> Trim(parts[i])]))
                 ELSE Put(properties, fieldSchema.key, Arr(<< value >>))
            ELSE Put(properties, fieldSchema.key, Str(value))

\* Mutant of setTags: the tags of a multiSelect field with options are passed
\* as they are.
setTagsUnfiltered(schemaMap, properties, tags) ==
    IF "Tags" \notin DOMAIN schemaMap THEN properties
    ELSE LET tagsSchema == schemaMap["Tags"] IN
    IF tagsSchema.type \in {"text", "richText"}
    THEN setProp(schemaMap, properties, "Tags", Join(tags, <<",", " ">>))
    ELSE IF tagsSchema.type = "multiSelect" /\ tagsSchema.options = <<>>
    THEN properties
    ELSE Put(properties, tagsSchema.key, Arr(tags))

\* The Tags field: joined for a text field, filtered to the options for a
\* multiSelect with options, dropped for a multiSelect without, and passed
\* as the array for a field of any other type.
setTags(schemaMap, properties, tags) ==
    IF "Tags" \notin DOMAIN schemaMap THEN properties
    ELSE LET tagsSchema == schemaMap["Tags"] IN
    IF tagsSchema.type \in {"text", "richText"}
    THEN setProp(schemaMap, properties, "Tags", Join(tags, <<",", " ">>))
    ELSE IF tagsSchema.type = "multiSelect" /\ tagsSchema.options # <<>>
    THEN LET validTags ==
                SelectSeq(tags, LAMBDA t :
                    Matches(tagsSchema.options, WithoutHash(t)) # <<>>)
             mappedTags ==
                [i \in 1..Len(validTags) |->
                    Matches(tagsSchema.options, WithoutHash(validTags[i]))[1]]
         IN IF validTags # <<>>
            THEN Put(properties, tagsSchema.key, Arr(mappedTags))
            ELSE properties
    ELSE IF tagsSchema.type = "multiSelect" THEN properties
    ELSE Put(properties, tagsSchema.key, Arr(tags))

\* schema.properties.forEach(prop => schemaMap[prop.name] = {key, type, options})
RECURSIVE SchemaMapOf(_)
SchemaMapOf(props) ==
    IF props = <<>> THEN EmptyMap
    ELSE LET p == props[Len(props)] IN
         Put(SchemaMapOf(SubSeq(props, 1, Len(props) - 1)), p.name,
             [key |-> p.key, type |-> p.type, options |-> p.options])

\* Steps 4 of the loop body: the derived fields, then the properties in the
\* order the route sets them.
mapProperties(schemaMap, record) ==
    LET creators == formatAuthors(record.creators)
        year == extractYear(record.date)
        journal == record.publicationTitle
        url == IF record.url # <<>> THEN record.url ELSE record.DOI
        dateAdded == dateAddedOf(record)
        formattedItemType == formatItemType(record.itemType)
        tags == formattedTags(record.tags)
        p1 == setProp(schemaMap, EmptyMap, "Authors", creators)
        p2 == setProp(schemaMap, p1, "Year", year)
        p3 == setProp(schemaMap, p2, "Journal", journal)
        p4 == setProp(schemaMap, p3, "URL", url)
        p5 == setProp(schemaMap, p4, "Date added", dateAdded)
        p6 == setProp(schemaMap, p5, "Publication type", formattedItemType)
        p7 == setTags(schemaMap, p6, tags)
    IN setProp(schemaMap, p7, "Reading status", ToRead)

\* Step 5 of the loop body: the template literal, line by line.  A label or
\* heading of the template is one element of its line, the interpolated
\* value follows it character by character.
NoAbstract == << "No abstract available." >>
Bullet == << "- " >>

\* Mutant of markdownBody: the abstract is interpolated as it is.
markdownBodyBareAbstract(record) ==
    << << >>,
       << "**Authors:** " >> \o formatAuthors(record.creators),
       << "**Year:** " >> \o extractYear(record.date),
       << "**Journal:** " >> \o record.publicationTitle,
       << "**Link:** " >> \o (IF record.url # <<>> THEN record.url ELSE record.DOI),
       << "**Date Added:** " >> \o dateAddedOf(record),
       << "**Publication Type:** " >> \o formatItemType(record.itemType),
       << "**Tags:** " >> \o Join(formattedTags(record.tags), << " " >>),
       << >>,
       << "**Abstract:**" >>,
       record.abstractNote,
       << >>,
       << "## Key Ideas" >>, Bullet, << >>,
       << "## Quotes" >>, Bullet, << >>,
       << "## Critique" >>, Bullet, << >>,
       << "## Related Work" >>, Bullet, << >> >>

markdownBody(record) ==
    << << >>,
       << "**Authors:** " >> \o formatAuthors(record.creators),
       << "**Year:** " >> \o extractYear(record.date),
       << "**Journal:** " >> \o record.publicationTitle,
       << "**Link:** " >> \o (IF record.url # <<>> THEN record.url ELSE record.DOI),
       << "**Date Added:** " >> \o dateAddedOf(record),
       << "**Publication Type:** " >> \o formatItemType(record.itemType),
       << "**Tags:** " >> \o Join(formattedTags(record.tags), << " " >>),
       << >>,
       << "**Abstract:**" >>,
       IF record.abstractNote # <<>> THEN record.abstractNote ELSE NoAbstract,
       << >>,
       << "## Key Ideas" >>, Bullet, << >>,
       << "## Quotes" >>, Bullet, << >>,
       << "## Critique" >>, Bullet, << >>,
       << "## Related Work" >>, Bullet, << >> >>

\* ------------------------------------------------------------------ source
\* The records the source can return, as the route's state holds them: key,
\* title and dateAdded, which is "none" (absent), "valid" or "invalid" (a
\* string Date cannot parse).
Catalogue ==
    { [key |-> "k1", title |-> <<"F">>,      dateAdded |-> "valid"],
      [key |-> "k2", title |-> <<"F", " ">>, dateAdded |-> "none"],
      [key |-> "k3", title |-> <<"G">>,      dateAdded |-> "invalid"],
      [key |-> "k4", title |-> NoTitle,      dateAdded |-> "none"] }

\* The fields of item.data the mapper reads; a string field that is not set
\* is the empty string.
Creator(name, firstName, lastName) ==
    [name |-> name, firstName |-> firstName, lastName |-> lastName]
Bare(dateAdded) ==
    [dateAdded |-> dateAdded,
     creators |-> <<>>, date |-> <<>>, publicationTitle |-> <<>>,
     url |-> <<>>, DOI |-> <<>>, itemType |-> <<>>, tags |-> <<>>,
     abstractNote |-> <<>>]
Filled(dateAdded) ==
    [dateAdded |-> dateAdded,
     creators |-> << Creator(<<>>, <<"A">>, <<"B">>), Creator(<<"C">>, <<>>, <<>>) >>,
     date |-> <<"2", "0", "2", "1", "-", "0", "3">>,
     publicationTitle |-> <<"J">>,
     url |-> <<>>, DOI |-> <<"d">>,
     itemType |-> <<"b", "o", "o", "k", "S", "e", "c">>,
     tags |-> << <<"a", "i">> >>,
     abstractNote |-> <<"x">>]
\* One creator, a date with a month, one tag of two words, no abstract.
Plain(dateAdded) ==
    [dateAdded |-> dateAdded,
     creators |-> << Creator(<<"N">>, <<>>, <<>>) >>,
     date |-> <<"2", "0", "1", "5", "-", "0", "3">>,
     publicationTitle |-> <<>>,
     url |-> <<>>, DOI |-> <<>>, itemType |-> <<>>,
     tags |-> << <<"m", " ", "l">> >>,
     abstractNote |-> <<>>]

\* item.data of a record of the catalogue: records k1 and k3 have every
\* field set, k2 the few of Plain, and k4 none.
ItemData(record) ==
    IF record.key \in {"k1", "k3"} THEN Filled(record.dateAdded)
    ELSE IF record.key = "k2" THEN Plain(record.dateAdded)
    ELSE Bare(record.dateAdded)

\* A batch lists each record of the library at most once.
Batches ==
    { b \in UNION { [1..n -> Catalogue] : n \in 0..MaxItems } :
        \A i, j \in DOMAIN b : i # j => b[i].key # b[j].key }

\* Outcome of an awaited fetch: a 2xx response, a non-2xx response, or a
\* rejected promise (network failure).
Resp == {"ok", "http", "net"}

\* ------------------------------------------------------------- destination
\* What a configuration can select.  "" is an unset selector.
CollectionIds == {"", "col"}
DocumentIds == {"", "doc"}

\* Destination contents a run can start from: the collection's items and the
\* parent document's child blocks.
Destinations ==
    { [coll |-> <<>>, doc |-> <<>>],
      [coll |-> << [title |-> <<"F", " ">>] >>,
       doc |-> << [type |-> "text", markdown |-> <<"G">>],
                  [type |-> "page", markdown |-> <<" ", "F">>] >>] }

\* A field descriptor of a collection's schema.
Descriptor(name, key, type, options) ==
    [name |-> name, key |-> key, type |-> type, options |-> options]

\* The schema of the target collection, as the routes' runs meet it: without
\* any field, or with some of the fields the mapper knows.
SampleSchema ==
    << Descriptor("Authors", "a", "text", <<>>),
       Descriptor("Year", "y", "number", <<>>) >>
Absent == [kind |-> "absent"]
Schema(props) == [kind |-> "schema", properties |-> props]
SchemaResponses == {Absent, Schema(<<>>), Schema(SampleSchema)}

\* CraftClient.getCollectionSchema: it throws when its fetch fails, and
\* otherwise returns the schema the response carries, if any.
getCollectionSchemaThrows(resp) == resp # "ok"
getCollectionSchema(resp, schema) == IF resp = "ok" THEN schema ELSE Absent

\* Mutant of ItemsSome: only the record's title is trimmed.
ItemsSomeOneSided(items, title) ==
    \E k \in 1..Len(items) : items[k].title = Trim(title)

\* Mutant of ItemsSome: the titles are compared as they are.
ItemsSomeUntrimmed(items, title) ==
    \E k \in 1..Len(items) : items[k].title = title

\* items.some(item => item.title?.trim() === title.trim())
ItemsSome(items, title) ==
    \E k \in 1..Len(items) : Trim(items[k].title) = Trim(title)

\* blocks.some(block => block.type === 'page' && block.markdown?.trim() === title.trim())
BlocksSome(blocks, title) ==
    \E k \in 1..Len(blocks) :
        blocks[k].type = "page" /\ Trim(blocks[k].markdown) = Trim(title)

\* Does checkItemExists issue a fetch at all?
CheckFetches(collectionId, parentDocId) ==
    collectionId # "" \/ parentDocId # ""

\* Mutant of checkItemExists: a failed fetch reports "found".
checkItemExistsFailClosed(collectionId, parentDocId, title, resp, items, blocks) ==
    IF collectionId # ""
    THEN IF resp = "ok" THEN ItemsSome(items, title) ELSE TRUE
    ELSE IF parentDocId # ""
         THEN IF resp = "ok" THEN BlocksSome(blocks, title) ELSE TRUE
         ELSE FALSE

\* CraftClient.checkItemExists: resp is the outcome of its fetch, items and
\* blocks what a 2xx response lists.  It returns a boolean on every path.
checkItemExists(collectionId, parentDocId, title, resp, items, blocks) ==
    IF collectionId # ""
    THEN IF resp = "ok" THEN ItemsSome(items, title) ELSE FALSE
    ELSE IF parentDocId # ""
         THEN IF resp = "ok" THEN BlocksSome(blocks, title) ELSE FALSE
         ELSE FALSE

\* -------------------------------------------------------------------- state
VARIABLES
    targetCollectionId,  \* craft.targetCollectionId of the configuration
    parentDocumentId,    \* craft.parentDocumentId of the configuration
    source,              \* the batch the source returns to getCollectionItems
    coll,                \* destination: items of the target collection
    doc,                 \* destination: child blocks of the parent document
    \* the route handler of /api/sync-now
    pass,                \* number of requests the route has taken so far
    pc,                  \* the await the handler of the pass is suspended at
    items,               \* the batch the pass fetched
    idx,                 \* index of the record of the current iteration
    aborted,             \* request.signal.aborted
    events,              \* the lines enqueued on the stream, in order
    closed,              \* number of controller.close() calls
    reqs,                \* history: requests the pass issued to the destination
    checkResp,           \* history: outcome of the fetch of the latest existence check
    thrown,              \* history: indices of the records whose processing threw
    lookupFailed,        \* history: an existence check of the pass got no listing
    prevComplete,        \* history: the pass before reported every record of
                         \* the batch as created or skipped
    schemaMap,           \* schemaMap: field name -> { key, type, options }
    schemaFetches,       \* history: calls of getCollectionSchema by the pass
    schemaFailed,        \* history: getCollectionSchema threw
    properties,          \* the Property Map built in the latest iteration
    createCall,          \* history: the latest create operation called, with
                         \* its arguments
    answered,            \* history: requests of reqs that have returned
    \* the page component (Home)
    syncing,             \* useState: syncing
    abortControllerRef,  \* useRef: 0 for null, else the invocation owning the controller
    logs,                \* useState: logs, most recent first
    lastSyncTime,        \* useState: 0 for null, else the invocation that set it
    started,             \* number of syncNow invocations that got past the guard
    inv,                 \* per invocation: the await syncNow is suspended at
    ctrlAborted,         \* invocations whose AbortController was aborted
    delivered,           \* lines of the current stream the reader has consumed
    \* checkItemExists on its own
    lookup,              \* its inputs, and its result once called
    \* the field mapper on its own
    mapper,              \* its inputs, and the Property Map once called
    \* ZoteroClient.getGroups on its own
    groupsCall,          \* the group list, the fetches in flight, and what it returns
    \* POST /api/test-connections
    testCall,            \* the outcome of each call, and the response once sent
    \* the stream reader loop of syncNow on its own
    streamReader         \* the response bytes, the decoder, buffer and logs

envVars == <<targetCollectionId, parentDocumentId, source, coll, doc>>
schemaVars == <<schemaMap, schemaFetches, schemaFailed>>
createVars == <<properties, createCall>>
srvVars == <<pass, pc, items, idx, aborted, events, closed, reqs,
             checkResp, thrown, lookupFailed, prevComplete,
             schemaVars, createVars, answered>>
clientVars == <<syncing, abortControllerRef, logs, lastSyncTime, started, inv,
                ctrlAborted, delivered>>
\* what no step of the page touches, beside the route's state
restVars == <<lookup, mapper, groupsCall, testCall, streamReader>>
\* what no step of the route touches
otherVars == <<clientVars, restVars>>
vars == <<envVars, srvVars, clientVars, restVars>>

\* A line of the stream.  rec is the index in the batch of the record the
\* line reports (0 for a lifecycle line); it is not part of the payload.
Event(title, status, details, rec) ==
    [title |-> title, status |-> status, details |-> details, rec |-> rec]
System == <<"S", "y", "s", "t", "e", "m">>

Request(kind, rec) == [kind |-> kind, rec |-> rec]

\* const itemTitle = item.data.title || 'Untitled'
itemTitle(record) == IF record.title = NoTitle THEN Untitled ELSE record.title

\* Step 4 of the loop body throws when dateAdded cannot be parsed:
\* new Date(item.data.dateAdded).toISOString() raises RangeError.
MappingThrows(record) == record.dateAdded = "invalid"

\* The per-record lines of a stream, in order.
RecordEvents(evs) == SelectSeq(evs, LAMBDA e : e.rec # 0)

Invocations == 1..MaxSyncs

\* No create operation has been called.
NoCall == [kind |-> "none"]
NoLookup == [called |-> FALSE]
NoMapping == [called |-> FALSE]
NoGroups == [pc |-> "none"]
NoTest == [pc |-> "none"]
NoReader == [pc |-> "none"]

InitServer ==
    /\ pass = 0
    /\ pc = "idle"
    /\ items = <<>>
    /\ idx = 0
    /\ aborted = FALSE
    /\ events = <<>>
    /\ closed = 0
    /\ reqs = <<>>
    /\ checkResp = "none"
    /\ thrown = {}
    /\ lookupFailed = FALSE
    /\ prevComplete = FALSE
    /\ schemaMap = EmptyMap
    /\ schemaFetches = 0
    /\ schemaFailed = FALSE
    /\ properties = EmptyMap
    /\ createCall = NoCall
    /\ answered = 0

InitClient ==
    /\ syncing = FALSE
    /\ abortControllerRef = 0
    /\ logs = <<>>
    /\ lastSyncTime = 0
    /\ started = 0
    /\ inv = [c \in Invocations |-> "none"]
    /\ ctrlAborted = {}
    /\ delivered = 0

Init ==
    /\ targetCollectionId \in CollectionIds
    /\ parentDocumentId \in DocumentIds
    /\ source \in Batches
    /\ \E d \in Destinations : coll = d.coll /\ doc = d.doc
    /\ InitServer
    /\ InitClient
    /\ lookup = NoLookup
    /\ mapper = NoMapping
    /\ groupsCall = NoGroups
    /\ testCall = NoTest
    /\ streamReader = NoReader

\* ------------------------------------------------------- POST /api/sync-now
Enqueue(lines) == events' = events \o lines
Close == closed' = closed + 1
Goto(label) == pc' = label
Issue(kind) == reqs' = Append(reqs, Request(kind, idx))

CurrentRecord == items[idx]
CurrentTitle == itemTitle(CurrentRecord)

\* The end of one iteration: the record's line is enqueued and the for loop
\* moves to the next record.
Report(status, details) ==
    /\ Enqueue(<< Event(CurrentTitle, status, details, idx) >>)
    /\ idx' = idx + 1
    /\ Goto("loop")

\* Mutant of OuterCatch: the last line is written but the stream is left open.
OuterCatchLeavesOpen ==
    /\ Enqueue(<< Event(System, "error", "Critical sync failure", 0) >>)
    /\ UNCHANGED closed
    /\ Goto("failed")

\* The outer catch of start(): a last line, and the stream is closed.
OuterCatch ==
    /\ Enqueue(<< Event(System, "error", "Critical sync failure", 0) >>)
    /\ Close
    /\ Goto("closed")

FetchLog == Event(System, "info", "Fetching up to maxItems items from Zotero...", 0)

\* Mutant of Catch: the try encloses the loop, so an exception ends it.
CatchEndsLoop ==
    /\ Enqueue(<< Event(CurrentTitle, "error", "err.message", idx) >>)
    /\ idx' = Len(items) + 1
    /\ Goto("loop")

\* Mutant of Catch: after the record's error line the loop takes the same
\* record again.
CatchRetries ==
    /\ Enqueue(<< Event(CurrentTitle, "error", "err.message", idx) >>)
    /\ idx' = idx
    /\ Goto("loop")

\* The catch of the loop body: the record's error line, and the loop goes on.
Catch == Report("error", "err.message")

\* An exception raised inside the try of the loop body.
Throw == thrown' = thrown \cup {idx} /\ Catch

\* Did the pass report each record of the batch as created or skipped?
Complete ==
    /\ pc = "closed"
    /\ Len(RecordEvents(events)) = Len(source)
    /\ \A k \in 1..Len(events) : events[k].status # "error"

\* A request arrives (the pass before it has ended).  start(controller): a
\* fresh stream and signal, the initial line, then await request.json()
Post ==
    /\ pc \in {"idle", "closed"}
    /\ pass' = pass + 1
    /\ prevComplete' = Complete
    /\ events' = << Event(System, "info", "Connecting to Zotero...", 0) >>
    /\ Goto("body")
    /\ items' = <<>>
    /\ idx' = 0
    /\ aborted' = FALSE
    /\ closed' = 0
    /\ reqs' = <<>>
    /\ checkResp' = "none"
    /\ thrown' = {}
    /\ lookupFailed' = FALSE
    /\ schemaMap' = EmptyMap
    /\ schemaFetches' = 0
    /\ schemaFailed' = FALSE
    /\ properties' = EmptyMap
    /\ createCall' = NoCall
    /\ answered' = 0
    /\ UNCHANGED <<envVars, otherVars>>

\* Mutant of ParseBody: a body that cannot be read gets its error line, and
\* the pass goes on to the fetch of the batch.
ParseBodyGoesOn ==
    /\ pc = "body"
    /\ \E ok \in BOOLEAN :
        IF ~ok
        THEN /\ Enqueue(<< Event(System, "error", "Critical sync failure", 0) >>)
             /\ Goto("fetch")
             /\ UNCHANGED <<closed, schemaFetches>>
        ELSE IF targetCollectionId # ""
        THEN /\ Goto("schema")
             /\ schemaFetches' = schemaFetches + 1
             /\ UNCHANGED <<events, closed>>
        ELSE /\ Enqueue(<< FetchLog >>)
             /\ Goto("fetch")
             /\ UNCHANGED <<closed, schemaFetches>>
    /\ UNCHANGED <<envVars, otherVars, pass, items, idx, aborted, reqs,
                   checkResp, thrown, lookupFailed, prevComplete,
                   schemaMap, schemaFailed, createVars, answered>>

\* request.json() returns or throws; reading config out of the body throws
\* as well when it is malformed.  A throw reaches the outer catch.
ParseBody ==
    /\ pc = "body"
    /\ \E ok \in BOOLEAN :
        IF ~ok
        THEN OuterCatch /\ UNCHANGED schemaFetches
        ELSE IF targetCollectionId # ""
        THEN /\ Goto("schema")
             /\ schemaFetches' = schemaFetches + 1
             /\ UNCHANGED <<events, closed>>
        ELSE /\ Enqueue(<< FetchLog >>)
             /\ Goto("fetch")
             /\ UNCHANGED <<closed, schemaFetches>>
    /\ UNCHANGED <<envVars, otherVars, pass, items, idx, aborted, reqs,
                   checkResp, thrown, lookupFailed, prevComplete,
                   schemaMap, schemaFailed, createVars, answered>>

\* await craftClient.getCollectionSchema(...) returns or throws; then the
\* fetch line, and await zoteroClient.getCollectionItems(maxItems)
SchemaWarning == Event(System, "warning", "Failed to fetch schema", 0)

\* Mutant of FetchSchema: a failed schema fetch is not caught on its own
\* and ends the pass in the outer catch.
FetchSchemaFatal ==
    /\ pc = "schema"
    /\ \E r \in Resp, s \in SchemaResponses :
        /\ r # "ok" => s = Absent
        /\ schemaFailed' = getCollectionSchemaThrows(r)
        /\ IF getCollectionSchemaThrows(r)
           THEN /\ OuterCatch
                /\ UNCHANGED schemaMap
           ELSE /\ schemaMap' = IF getCollectionSchema(r, s).kind = "schema"
                                THEN SchemaMapOf(getCollectionSchema(r, s).properties)
                                ELSE EmptyMap
                /\ Enqueue(<< FetchLog >>)
                /\ Goto("fetch")
                /\ UNCHANGED closed
    /\ UNCHANGED <<envVars, otherVars, pass, items, idx, aborted, reqs,
                   checkResp, thrown, lookupFailed, prevComplete,
                   schemaFetches, createVars, answered>>

\* Mutant of FetchSchema: when the schema cannot be fetched the collection id
\* is cleared in the configuration, so that the pass creates subpages.
FetchSchemaDropsTarget ==
    /\ pc = "schema"
    /\ \E r \in Resp, s \in SchemaResponses :
        /\ r # "ok" => s = Absent
        /\ schemaFailed' = getCollectionSchemaThrows(r)
        /\ IF getCollectionSchemaThrows(r)
           THEN /\ Enqueue(<< SchemaWarning, FetchLog >>)
                /\ targetCollectionId' = ""
                /\ UNCHANGED schemaMap
           ELSE /\ schemaMap' = IF getCollectionSchema(r, s).kind = "schema"
                                THEN SchemaMapOf(getCollectionSchema(r, s).properties)
                                ELSE EmptyMap
                /\ Enqueue(<< FetchLog >>)
                /\ UNCHANGED targetCollectionId
    /\ Goto("fetch")
    /\ UNCHANGED <<parentDocumentId, source, coll, doc, otherVars, pass, items, idx,
                   aborted, closed, reqs, checkResp, thrown, lookupFailed,
                   prevComplete, schemaFetches, createVars, answered>>

FetchSchema ==
    /\ pc = "schema"
    /\ \E r \in Resp, s \in SchemaResponses :
        /\ r # "ok" => s = Absent
        /\ schemaFailed' = getCollectionSchemaThrows(r)
        /\ IF getCollectionSchemaThrows(r)
           THEN /\ Enqueue(<< SchemaWarning, FetchLog >>)
                /\ UNCHANGED schemaMap
           ELSE /\ schemaMap' = IF getCollectionSchema(r, s).kind = "schema"
                                THEN SchemaMapOf(getCollectionSchema(r, s).properties)
                                ELSE EmptyMap
                /\ Enqueue(<< FetchLog >>)
    /\ Goto("fetch")
    /\ UNCHANGED <<envVars, otherVars, pass, items, idx, aborted, closed, reqs,
                   checkResp, thrown, lookupFailed, prevComplete,
                   schemaFetches, createVars, answered>>

\* Mutant of FetchItemsFailed: the catch neither closes nor returns.
FetchItemsFailedGoesOn ==
    /\ Enqueue(<< Event(System, "error", "Failed to fetch Zotero items", 0) >>)
    /\ Goto("loop")
    /\ UNCHANGED <<items, idx, closed>>

\* Mutant of FetchItemsFailed: the catch closes the stream but does not
\* return, so the empty loop is passed and the stream closed again.
FetchItemsFailedNoReturn ==
    /\ Enqueue(<< Event(System, "error", "Failed to fetch Zotero items", 0) >>)
    /\ Close
    /\ Goto("loop")
    /\ UNCHANGED <<items, idx>>

\* What the route does when getCollectionItems throws: the error line, the
\* stream is closed and start() returns.
FetchItemsFailed ==
    /\ Enqueue(<< Event(System, "error", "Failed to fetch Zotero items", 0) >>)
    /\ Close
    /\ Goto("closed")
    /\ UNCHANGED <<items, idx>>

\* Mutant of FetchItems: the summary line of the fetch is left out.
FetchItemsNoSummary ==
    /\ pc = "fetch"
    /\ \E r \in Resp :
        IF r = "ok"
        THEN /\ items' = source
             /\ idx' = 1
             /\ UNCHANGED events
             /\ Goto("loop")
             /\ UNCHANGED closed
        ELSE FetchItemsFailed
    /\ UNCHANGED <<envVars, otherVars, pass, aborted, reqs,
                   checkResp, thrown, lookupFailed, prevComplete,
                   schemaVars, createVars, answered>>

\* ZoteroClient.getCollectionItems returns the batch or throws
FetchItems ==
    /\ pc = "fetch"
    /\ \E r \in Resp :
        IF r = "ok"
        THEN /\ items' = source
             /\ idx' = 1
             /\ Enqueue(<< Event(System, "success", "Found items. Processing...", 0) >>)
             /\ Goto("loop")
             /\ UNCHANGED closed
        ELSE FetchItemsFailed
    /\ UNCHANGED <<envVars, otherVars, pass, aborted, reqs,
                   checkResp, thrown, lookupFailed, prevComplete,
                   schemaVars, createVars, answered>>

\* Mutant of LoopEnds: the signal is not looked at.
LoopEndsOnlyWhenExhausted == idx > Len(items)

\* if (request.signal.aborted) break, or the batch is exhausted
LoopEnds == idx > Len(items) \/ aborted

\* Top of an iteration of for (const item of items): when the loop ends the
\* stream is closed; otherwise checkItemExists is called, which fetches the
\* listing when a lookup target is configured.
LoopTop ==
    /\ pc = "loop"
    /\ IF LoopEnds
       THEN /\ Close
            /\ Goto("closed")
            /\ UNCHANGED <<reqs, checkResp>>
       ELSE /\ checkResp' = "none"
            /\ IF CheckFetches(targetCollectionId, parentDocumentId)
               THEN Issue("check")
               ELSE UNCHANGED reqs
            /\ Goto("check")
            /\ UNCHANGED closed
    /\ UNCHANGED <<envVars, otherVars, pass, items, idx, aborted, events,
                   thrown, lookupFailed, prevComplete,
                   schemaVars, createVars, answered>>

\* Mutant of Create: a subpage is created whatever the configuration.
CreateAlwaysNote ==
    /\ properties' = mapProperties(schemaMap, ItemData(CurrentRecord))
    /\ Issue("note")
    /\ Goto("note")
    /\ createCall' = [kind |-> "createNote", title |-> CurrentTitle,
                      body |-> markdownBody(ItemData(CurrentRecord)),
                      tags |-> formattedTags(ItemData(CurrentRecord).tags)]

\* Mutant of Create: the Property Map is declared outside the loop, so the
\* entries of the records before stay in it unless they are set again.
CreateMerges ==
    /\ properties' =
          LET fresh == mapProperties(schemaMap, ItemData(CurrentRecord)) IN
          [k \in DOMAIN properties \cup DOMAIN fresh |->
              IF k \in DOMAIN fresh THEN fresh[k] ELSE properties[k]]
    /\ IF targetCollectionId # ""
       THEN /\ Issue("create1")
            /\ Goto("create1")
            /\ createCall' = [kind |-> "createCollectionItem",
                              collectionId |-> targetCollectionId,
                              title |-> CurrentTitle,
                              body |-> markdownBody(ItemData(CurrentRecord)),
                              properties |-> properties']
       ELSE /\ Issue("note")
            /\ Goto("note")
            /\ createCall' = [kind |-> "createNote", title |-> CurrentTitle,
                              body |-> markdownBody(ItemData(CurrentRecord)),
                              tags |-> formattedTags(ItemData(CurrentRecord).tags)]

\* Steps 4 to 6 of the loop body when the mapping does not throw: the
\* Property Map is built, then createCollectionItem is called with it when
\* a target collection is configured, and createNote with the tags
\* otherwise.  Either call starts with a POST to the destination.
Create ==
    /\ properties' = mapProperties(schemaMap, ItemData(CurrentRecord))
    /\ IF targetCollectionId # ""
       THEN /\ Issue("create1")
            /\ Goto("create1")
            /\ createCall' = [kind |-> "createCollectionItem",
                              collectionId |-> targetCollectionId,
                              title |-> CurrentTitle,
                              body |-> markdownBody(ItemData(CurrentRecord)),
                              properties |-> properties']
       ELSE /\ Issue("note")
            /\ Goto("note")
            /\ createCall' = [kind |-> "createNote", title |-> CurrentTitle,
                              body |-> markdownBody(ItemData(CurrentRecord)),
                              tags |-> formattedTags(ItemData(CurrentRecord).tags)]

\* Mutant of AfterCheck: a found record is skipped without a line.
AfterCheckSilentSkip(exists) ==
    IF exists
    THEN /\ idx' = idx + 1
         /\ Goto("loop")
         /\ UNCHANGED <<events, reqs, thrown, createVars>>
    ELSE IF MappingThrows(CurrentRecord)
    THEN Throw /\ UNCHANGED <<reqs, createVars>>
    ELSE Create /\ UNCHANGED <<events, idx, thrown>>

\* Mutant of AfterCheck: the skip has no continue, the create still happens.
AfterCheckSkipFallsThrough(exists) ==
    /\ IF exists
       THEN Enqueue(<< Event(CurrentTitle, "skipped", "Already exists in Craft", idx) >>)
       ELSE UNCHANGED events
    /\ Create
    /\ UNCHANGED <<idx, thrown>>

\* Mutant of AfterCheck: the create is called but not awaited.
AfterCheckNoAwait(exists) ==
    IF exists
    THEN Report("skipped", "Already exists in Craft") /\ UNCHANGED <<reqs, thrown, createVars>>
    ELSE IF MappingThrows(CurrentRecord)
    THEN Throw /\ UNCHANGED <<reqs, createVars>>
    ELSE /\ properties' = mapProperties(schemaMap, ItemData(CurrentRecord))
         /\ createCall' = [kind |-> "createNote", title |-> CurrentTitle,
                           body |-> markdownBody(ItemData(CurrentRecord)),
                           tags |-> formattedTags(ItemData(CurrentRecord).tags)]
         /\ Issue("note")
         /\ Report("created", "")
         /\ UNCHANGED thrown

\* Mutant of AfterCheck: the signal is looked at again before the create.
AfterCheckHonoursSignal(exists) ==
    IF exists
    THEN Report("skipped", "Already exists in Craft") /\ UNCHANGED <<reqs, thrown, createVars>>
    ELSE IF aborted
    THEN /\ idx' = idx + 1
         /\ Goto("loop")
         /\ UNCHANGED <<events, reqs, thrown, createVars>>
    ELSE IF MappingThrows(CurrentRecord)
    THEN Throw /\ UNCHANGED <<reqs, createVars>>
    ELSE Create /\ UNCHANGED <<events, idx, thrown>>

\* What the loop body does once checkItemExists has returned: on "found" the
\* record is skipped, otherwise the fields are mapped (which may throw) and
\* the create is issued.
AfterCheck(exists) ==
    IF exists
    THEN Report("skipped", "Already exists in Craft") /\ UNCHANGED <<reqs, thrown, createVars>>
    ELSE IF MappingThrows(CurrentRecord)
    THEN Throw /\ UNCHANGED <<reqs, createVars>>
    ELSE Create /\ UNCHANGED <<events, idx, thrown>>

\* await craftClient.checkItemExists(...) returns: its fetch, if it made
\* one, has been answered.
CheckReturn ==
    /\ pc = "check"
    /\ \E r \in Resp :
        /\ CheckFetches(targetCollectionId, parentDocumentId) \/ r = "ok"
        /\ checkResp' = r
        /\ lookupFailed' = (lookupFailed \/ r # "ok")
        /\ AfterCheck(checkItemExists(targetCollectionId, parentDocumentId,
                                      CurrentTitle, r, coll, doc))
    /\ answered' = IF CheckFetches(targetCollectionId, parentDocumentId)
                   THEN answered + 1 ELSE answered
    /\ UNCHANGED <<envVars, otherVars, pass, items, aborted, closed, prevComplete,
                   schemaVars>>

\* createCollectionItem, step 1: the POST of the item returns.  "noid" is a
\* 2xx response that carries no item id.  Any outcome but "ok" throws.
Create1Return ==
    /\ pc = "create1"
    /\ \E r \in Resp \cup {"noid"} :
        /\ coll' = IF r \in {"ok", "noid"}
                   THEN Append(coll, [title |-> CurrentTitle])
                   ELSE coll
        /\ IF r = "ok"
           THEN /\ Issue("create2")
                /\ Goto("create2")
                /\ UNCHANGED <<events, idx, thrown>>
           ELSE /\ Throw
                /\ UNCHANGED reqs
    /\ answered' = answered + 1
    /\ UNCHANGED <<targetCollectionId, parentDocumentId, source, doc, otherVars,
                   pass, items, aborted, closed, checkResp, lookupFailed,
                   prevComplete, schemaVars, createVars>>

\* createCollectionItem, step 2: does the outcome of the POST of the body
\* block make createCollectionItem throw?  A non-2xx response is logged and
\* the id returned; a rejected fetch is rethrown by the catch.
Create2Throws(r) == r = "net"

Create2Return ==
    /\ pc = "create2"
    /\ \E r \in Resp :
        IF Create2Throws(r)
        THEN Throw
        ELSE Report("created", "") /\ UNCHANGED thrown
    /\ answered' = answered + 1
    /\ UNCHANGED <<envVars, otherVars, pass, items, aborted, closed, reqs,
                   checkResp, lookupFailed, prevComplete, schemaVars, createVars>>

\* createNote: the POST of the page block returns; anything but 2xx throws
NoteReturn ==
    /\ pc = "note"
    /\ \E r \in Resp :
        /\ doc' = IF r = "ok" /\ parentDocumentId # ""
                  THEN Append(doc, [type |-> "page", markdown |-> CurrentTitle])
                  ELSE doc
        /\ IF r = "ok"
           THEN Report("created", "") /\ UNCHANGED thrown
           ELSE Throw
    /\ answered' = answered + 1
    /\ UNCHANGED <<targetCollectionId, parentDocumentId, source, coll, otherVars,
                   pass, items, aborted, closed, reqs, checkResp, lookupFailed,
                   prevComplete, schemaVars, createVars>>

\* The request's abort signal fires while the pass is suspended.
SignalAbort ==
    /\ pc \notin {"idle", "closed"}
    /\ ~aborted
    /\ aborted' = TRUE
    /\ UNCHANGED <<envVars, otherVars, pass, pc, items, idx, events, closed, reqs,
                   checkResp, thrown, lookupFailed, prevComplete,
                   schemaVars, createVars, answered>>

\* The route on its own: requests arrive in succession, and the signal of a
\* request may fire at any time.
Arrive ==
    /\ pass < MaxPasses
    /\ pass > 0 => Len(source) <= MaxRepeatLen
    /\ Post

Next ==
    \/ Arrive
    \/ ParseBody
    \/ FetchSchema
    \/ FetchItems
    \/ LoopTop
    \/ CheckReturn
    \/ Create1Return
    \/ Create2Return
    \/ NoteReturn
    \/ SignalAbort

Spec == Init /\ [][Next]_vars

\* The step of the pass under way: the call it awaits returns or fails and
\* start() runs up to its next await.  At most one of these is enabled.
Resumes ==
    \/ ParseBody
    \/ FetchSchema
    \/ FetchItems
    \/ LoopTop
    \/ CheckReturn
    \/ Create1Return
    \/ Create2Return
    \/ NoteReturn

\* Every awaited call returns or fails: the step of the pass is not put off
\* for ever.
Returns == WF_vars(Resumes)

\* One request to the route and none after it: what the claim of a pass is
\* about does not need a second pass.
ArriveOnce == pass = 0 /\ Post

NextOnce ==
    \/ ArriveOnce
    \/ Resumes
    \/ SignalAbort

\* The records of a batch are handled one by one and independently, so the
\* batches are taken in one order of the library only.
LibraryOrder == <<"k1", "k2", "k3", "k4">>
InitOnce ==
    /\ Init
    /\ \A i, j \in DOMAIN source :
            i < j => IndexIn(source[i].key, LibraryOrder) < IndexIn(source[j].key, LibraryOrder)

SpecOnce == InitOnce /\ [][NextOnce]_vars /\ Returns

\* A library in which titles repeat: two records whose titles differ in
\* outer whitespace only, and two records without a title.  One request is
\* served from it.
TitleLibrary ==
    { [key |-> "k1", title |-> <<"F">>,      dateAdded |-> "valid"],
      [key |-> "k2", title |-> <<"F", " ">>, dateAdded |-> "none"],
      [key |-> "k4", title |-> NoTitle,      dateAdded |-> "none"],
      [key |-> "k5", title |-> NoTitle,      dateAdded |-> "valid"] }
TitleBatches ==
    { b \in UNION { [1..n -> TitleLibrary] : n \in 0..MaxItems } :
        \A i, j \in DOMAIN b : i # j => b[i].key # b[j].key }

InitTitles ==
    /\ targetCollectionId \in CollectionIds
    /\ parentDocumentId \in DocumentIds
    /\ source \in TitleBatches
    /\ \E d \in Destinations : coll = d.coll /\ doc = d.doc
    /\ InitServer
    /\ InitClient
    /\ lookup = NoLookup
    /\ mapper = NoMapping
    /\ groupsCall = NoGroups
    /\ testCall = NoTest
    /\ streamReader = NoReader

SpecTitles == InitTitles /\ [][NextOnce]_vars

\* ------------------------------------------------------- the page component
\* An entry of logs: the parsed line.  of is the invocation of syncNow that
\* added it; like rec it is not part of the entry.
LogEntry(e, c) ==
    [title |-> e.title, status |-> e.status, details |-> e.details,
     rec |-> e.rec, of |-> c]
SyncStopped == <<"S", "y", "n", "c", " ", "S", "t", "o", "p", "p", "e", "d">>
SyncFailure == <<"S", "y", "n", "c", " ", "F", "a", "i", "l", "u", "r", "e">>
StopEntry(c) ==
    [title |-> SyncStopped, status |-> "warning",
     details |-> "User cancelled the operation", rec |-> 0, of |-> c]
FailureEntry(c) ==
    [title |-> SyncFailure, status |-> "error", details |-> "e.message",
     rec |-> 0, of |-> c]

\* setLogs((prev) => [logEntry, ...prev]) for each line of a chunk, in order
RECURSIVE Prepend(_, _, _)
Prepend(lines, c, log) ==
    IF lines = <<>> THEN log
    ELSE Prepend(Tail(lines), c, << LogEntry(Head(lines), c) >> \o log)

\* Mutant of Finally: the ref is not compared with the invocation's own
\* controller.
FinallyOfAnyone(c) ==
    /\ syncing' = FALSE
    /\ lastSyncTime' = c
    /\ abortControllerRef' = 0

\* The finally of syncNow, run by invocation c.
Finally(c) ==
    IF abortControllerRef = c
    THEN /\ syncing' = FALSE
         /\ lastSyncTime' = c
         /\ abortControllerRef' = 0
    ELSE UNCHANGED <<syncing, lastSyncTime, abortControllerRef>>

\* syncNow up to its first await: the guard, a new controller, the log is
\* cleared and the request is sent.
SyncNow ==
    /\ ~syncing
    /\ started < MaxSyncs
    /\ started' = started + 1
    /\ abortControllerRef' = started + 1
    /\ syncing' = TRUE
    /\ logs' = <<>>
    /\ inv' = [inv EXCEPT ![started + 1] = "fetching"]
    /\ delivered' = 0
    /\ UNCHANGED <<envVars, srvVars, lastSyncTime, ctrlAborted, restVars>>

\* Mutant of StopSync: the controller is dropped but never aborted.
StopSyncWithoutAbort ==
    /\ abortControllerRef # 0
    /\ abortControllerRef' = 0
    /\ syncing' = FALSE
    /\ logs' = << StopEntry(abortControllerRef) >> \o logs
    /\ UNCHANGED <<envVars, srvVars, lastSyncTime, started, inv, delivered,
                   restVars, ctrlAborted>>

\* Mutant of StopSync: the ref is not tested.
StopSyncUnguarded ==
    /\ ctrlAborted' = ctrlAborted \cup ({abortControllerRef} \ {0})
    /\ abortControllerRef' = 0
    /\ syncing' = FALSE
    /\ logs' = << StopEntry(started) >> \o logs
    /\ UNCHANGED <<envVars, srvVars, lastSyncTime, started, inv, delivered, restVars>>

\* stopSync: with a controller in the ref, abort it, clear the ref and the
\* flag and put the warning on top of the log; without one, nothing.
StopSync ==
    /\ abortControllerRef # 0
    /\ ctrlAborted' = ctrlAborted \cup {abortControllerRef}
    /\ abortControllerRef' = 0
    /\ syncing' = FALSE
    /\ logs' = << StopEntry(abortControllerRef) >> \o logs
    /\ UNCHANGED <<envVars, srvVars, lastSyncTime, started, inv, delivered, restVars>>

\* await fetch(...) resolves: the route has returned its streaming response.
FetchResolves(c) ==
    /\ inv[c] = "fetching"
    /\ c \notin ctrlAborted
    /\ pass = c
    /\ inv' = [inv EXCEPT ![c] = "reading"]
    /\ UNCHANGED <<envVars, srvVars, syncing, abortControllerRef, logs,
                   lastSyncTime, started, ctrlAborted, delivered, restVars>>

\* await reader.read() resolves with a chunk: the lines it completes go on
\* top of the log, one by one.  A chunk here ends at the end of a line.
Reads(c) ==
    /\ inv[c] = "reading"
    /\ c \notin ctrlAborted
    /\ pass = c
    /\ \E n \in (delivered + 1)..Len(events) :
        /\ logs' = Prepend(SubSeq(events, delivered + 1, n), c, logs)
        /\ delivered' = n
    /\ UNCHANGED <<envVars, srvVars, syncing, abortControllerRef, lastSyncTime,
                   started, inv, ctrlAborted, restVars>>

\* await reader.read() resolves with done: the loop ends, then the finally.
ReadDone(c) ==
    /\ inv[c] = "reading"
    /\ c \notin ctrlAborted
    /\ pass = c
    /\ pc = "closed"
    /\ delivered = Len(events)
    /\ inv' = [inv EXCEPT ![c] = "ended"]
    /\ Finally(c)
    /\ UNCHANGED <<envVars, srvVars, logs, started, ctrlAborted, delivered, restVars>>

\* Mutant of Fails: the failure is logged but the finally is left out.
FailsWithoutFinally(c) ==
    /\ inv[c] \in {"fetching", "reading"}
    /\ c \notin ctrlAborted
    /\ inv' = [inv EXCEPT ![c] = "ended"]
    /\ logs' = << FailureEntry(c) >> \o logs
    /\ UNCHANGED <<syncing, lastSyncTime, abortControllerRef>>
    /\ UNCHANGED <<envVars, srvVars, started, ctrlAborted, delivered, restVars>>

\* The fetch or a read rejects for another reason than an abort (or the
\* response is not ok): the catch logs the failure, then the finally.
Fails(c) ==
    /\ inv[c] \in {"fetching", "reading"}
    /\ c \notin ctrlAborted
    /\ inv' = [inv EXCEPT ![c] = "ended"]
    /\ logs' = << FailureEntry(c) >> \o logs
    /\ Finally(c)
    /\ UNCHANGED <<envVars, srvVars, started, ctrlAborted, delivered, restVars>>

\* The pending fetch or read of an aborted controller rejects with
\* AbortError: the catch logs nothing, then the finally.
Rejected(c) ==
    /\ inv[c] \in {"fetching", "reading"}
    /\ c \in ctrlAborted
    /\ inv' = [inv EXCEPT ![c] = "ended"]
    /\ Finally(c)
    /\ UNCHANGED <<envVars, srvVars, logs, started, ctrlAborted, delivered, restVars>>

\* The page together with the route.  The route takes the requests of the
\* page one after the other; the signal of a request fires once the page has
\* aborted it or has stopped reading.
Accept == started > pass /\ Post

Disconnect ==
    /\ pass \in ctrlAborted \/ (pass >= 1 /\ inv[pass] = "ended")
    /\ SignalAbort

\* These runs start from an empty destination under a parent document, with
\* a batch of records k1 (whose processing can succeed) and k3 (whose
\* processing throws).
InitPage ==
    /\ Init
    /\ Len(source) <= MaxClientItems
    /\ \A i \in DOMAIN source : source[i].key \in {"k1", "k3"}
    /\ parentDocumentId = "doc"
    /\ coll = <<>>
    /\ doc = <<>>

NextPage ==
    \/ SyncNow
    \/ StopSync
    \/ \E c \in Invocations :
        \/ FetchResolves(c)
        \/ Reads(c)
        \/ ReadDone(c)
        \/ Fails(c)
        \/ Rejected(c)
    \/ Accept
    \/ ParseBody
    \/ FetchSchema
    \/ FetchItems
    \/ LoopTop
    \/ CheckReturn
    \/ Create1Return
    \/ Create2Return
    \/ NoteReturn
    \/ Disconnect

SpecPage == InitPage /\ [][NextPage]_vars

\* The page with a source collection that is empty: the pass of the route
\* has no record to handle.  The call an invocation of syncNow awaits
\* settles, and the route takes the request and goes through a pass without
\* being put off for ever; a failure of the connection may or may not come.
InitStops ==
    /\ InitPage
    /\ source = <<>>

Settles ==
    \E c \in Invocations :
        \/ FetchResolves(c)
        \/ Reads(c)
        \/ ReadDone(c)
        \/ Rejected(c)

Serves ==
    \/ Accept
    \/ ParseBody
    \/ FetchSchema
    \/ FetchItems
    \/ LoopTop

NextStops ==
    \/ SyncNow
    \/ StopSync
    \/ Settles
    \/ \E c \in Invocations : Fails(c)
    \/ Serves
    \/ Disconnect

SpecStops == InitStops /\ [][NextStops]_vars /\ WF_vars(Settles) /\ WF_vars(Serves)

\* ------------------------------------------------ checkItemExists on its own
\* The strings, and the listings a 2xx response can carry: each entry has a
\* type and a text, which is the title of an item of the collection and the
\* markdown of a block of the document.
Chars == {"F", " "}
Strings == UNION { [1..n -> Chars] : n \in 0..MaxStrLen }
Entries == [type : {"page", "text"}, text : Strings]
Listings == UNION { [1..n -> Entries] : n \in 0..MaxListing }

AsItems(listing) == [k \in DOMAIN listing |-> [title |-> listing[k].text]]
AsBlocks(listing) ==
    [k \in DOMAIN listing |-> [type |-> listing[k].type, markdown |-> listing[k].text]]

InitLookup ==
    /\ lookup \in [called : {FALSE}, result : {FALSE},
                   collectionId : CollectionIds, parentDocumentId : DocumentIds,
                   title : Strings, resp : Resp, listing : Listings]
    /\ targetCollectionId = ""
    /\ parentDocumentId = ""
    /\ source = <<>>
    /\ coll = <<>>
    /\ doc = <<>>
    /\ InitServer
    /\ InitClient
    /\ mapper = NoMapping
    /\ groupsCall = NoGroups
    /\ testCall = NoTest
    /\ streamReader = NoReader

\* A call of checkItemExists(collectionId, title) on a client configured
\* with parentDocumentId.
Lookup ==
    /\ ~lookup.called
    /\ lookup' = [lookup EXCEPT
                    !.called = TRUE,
                    !.result = checkItemExists(lookup.collectionId,
                                               lookup.parentDocumentId,
                                               lookup.title, lookup.resp,
                                               AsItems(lookup.listing),
                                               AsBlocks(lookup.listing))]
    /\ UNCHANGED <<envVars, srvVars, clientVars, mapper, groupsCall, testCall, streamReader>>

SpecLookup == InitLookup /\ [][Lookup]_vars

\* ------------------------------------------- the field mapper on its own
\* The names setProp is called with, and one name it is never called with.
SemanticNames ==
    {"Authors", "Year", "Journal", "URL", "Date added", "Publication type",
     "Tags", "Reading status"}
FieldNames == SemanticNames \cup {"Notes"}
\* The types of CraftProperty, and one the mapper has no branch for.
FieldTypes ==
    {"text", "richText", "number", "url", "date", "select", "multiSelect",
     "checkbox"}
OptWaiting == <<"W", "a", "i", "t", "i", "n", "g">>
OptDone == <<"D", "o", "n", "e">>
OptAI == <<"A", "I">>
OptToRead == <<"t", "o", " ", "r", "e", "a", "d">>
OptionLists == { <<>>, <<OptWaiting, OptDone>>, <<OptAI, OptToRead>> }
Descriptors ==
    { Descriptor(n, k, t, o) :
        n \in FieldNames, k \in {"p", "tags"}, t \in FieldTypes, o \in OptionLists }

\* A schema: no field, one field, or that field after a text field Authors.
MapperSchemas ==
    { <<>> } \cup { << d >> : d \in Descriptors }
             \cup { << Descriptor("Authors", "a", "text", <<>>), d >> : d \in Descriptors }

\* The records: with or without the fields set, a date with a year in it,
\* without a digit, or with digits that are no year, and up to MaxTags tags.
TagPool == { <<"a", "i">>, <<"q", " ", "c">> }
TagLists == UNION { [1..n -> TagPool] : n \in 0..MaxTags }
MapperRecords ==
    { [r EXCEPT !.tags = t] :
        r \in { Bare("none"), Filled("valid"),
                [Filled("valid") EXCEPT !.date = <<"n", "d">>],
                [Filled("valid") EXCEPT !.date = <<"1", "2", " ", "M">>] },
        t \in TagLists }

InitMapper ==
    /\ mapper \in [called : {FALSE}, schema : MapperSchemas,
                    record : MapperRecords, properties : {EmptyMap}]
    /\ targetCollectionId = ""
    /\ parentDocumentId = ""
    /\ source = <<>>
    /\ coll = <<>>
    /\ doc = <<>>
    /\ InitServer
    /\ InitClient
    /\ lookup = NoLookup
    /\ groupsCall = NoGroups
    /\ testCall = NoTest
    /\ streamReader = NoReader

\* The Property Map of one record under one schema: schemaMap is built from
\* the schema, then the fields are set.
Map ==
    /\ ~mapper.called
    /\ mapper' = [mapper EXCEPT
                    !.called = TRUE,
                    !.properties = mapProperties(SchemaMapOf(mapper.schema),
                                                 mapper.record)]
    /\ UNCHANGED <<envVars, srvVars, clientVars, lookup, groupsCall, testCall, streamReader>>

SpecMapper == InitMapper /\ [][Map]_vars

\* ------------------------------------- ZoteroClient.getGroups on its own
\* The groups of the user, and the collections each group's endpoint lists.
GroupCatalogue ==
    { [id |-> "g1", name |-> "A"], [id |-> "g2", name |-> "B"],
      [id |-> "g3", name |-> "C"] }
CollectionsOf(id) ==
    CASE id = "g1" -> << "c1" >>
      [] id = "g2" -> << "c2", "c3" >>
      [] OTHER -> << >>
GroupLists ==
    { l \in UNION { [1..n -> GroupCatalogue] : n \in 0..MaxGroups } :
        \A i, j \in DOMAIN l : i # j => l[i] # l[j] }

\* What the callback of groups.map returns for a group
GroupEntry(group, collections) ==
    [groupId |-> group.id, groupName |-> group.name, collections |-> collections]

InitEndpoints ==
    /\ groupsCall \in [pc : {"idle"}, groups : GroupLists, listResp : {"none"},
                        pending : {{}}, resps : {<<>>}, settled : {<<>>}]
    /\ targetCollectionId = ""
    /\ parentDocumentId = ""
    /\ source = <<>>
    /\ coll = <<>>
    /\ doc = <<>>
    /\ InitServer
    /\ InitClient
    /\ lookup = NoLookup
    /\ mapper = NoMapping
    /\ testCall = [pc |-> "idle", zoteroResp |-> "none", craftResp |-> "none",
                   zotero |-> FALSE, craft |-> FALSE, parsed |-> FALSE,
                   response |-> "none"]
    /\ streamReader = NoReader

AloneGroups == UNCHANGED <<envVars, srvVars, clientVars, lookup, mapper, testCall, streamReader>>

\* getGroups is called: the fetch of the group list is issued.
GetGroups ==
    /\ groupsCall.pc = "idle"
    /\ groupsCall' = [groupsCall EXCEPT !.pc = "groups"]
    /\ AloneGroups

\* The fetch of the group list returns.  A failure (a response that is not
\* ok, a rejected fetch, a body that is not JSON) is rethrown; otherwise the
\* callback runs for each group up to its fetch, and Promise.all of no
\* promise resolves at once.
GroupsReturn ==
    /\ groupsCall.pc = "groups"
    /\ \E r \in Resp :
        groupsCall' =
            [groupsCall EXCEPT
                !.listResp = r,
                !.pc = IF r # "ok" THEN "thrown"
                       ELSE IF groupsCall.groups = <<>> THEN "returned"
                       ELSE "collections",
                !.pending = IF r = "ok" THEN DOMAIN groupsCall.groups ELSE {}]
    /\ AloneGroups

\* Mutant of CollectionsReturn: the callback has no catch, so a rejected
\* fetch rejects Promise.all.
CollectionsReturnRethrows(i) ==
    /\ groupsCall.pc = "collections"
    /\ i \in groupsCall.pending
    /\ \E r \in Resp :
        LET collections ==
                IF r = "ok" THEN CollectionsOf(groupsCall.groups[i].id) ELSE << >>
            left == groupsCall.pending \ {i}
        IN groupsCall' =
            [groupsCall EXCEPT
                !.resps = Put(groupsCall.resps, i, r),
                !.settled = Put(groupsCall.settled, i,
                                GroupEntry(groupsCall.groups[i], collections)),
                !.pending = left,
                !.pc = IF r = "net" THEN "thrown"
                       ELSE IF left = {} THEN "returned" ELSE "collections"]
    /\ AloneGroups

\* The fetch of the collections of group i returns, in whatever order the
\* fetches complete: the group's entry has the collections listed when the
\* response is ok, and none when it is not or when the fetch (or the
\* reading of the body) throws.  Promise.all resolves with the entries in
\* the order of the groups once every callback has returned.
CollectionsReturn(i) ==
    /\ groupsCall.pc = "collections"
    /\ i \in groupsCall.pending
    /\ \E r \in Resp :
        LET collections ==
                IF r = "ok" THEN CollectionsOf(groupsCall.groups[i].id) ELSE << >>
            left == groupsCall.pending \ {i}
        IN groupsCall' =
            [groupsCall EXCEPT
                !.resps = Put(groupsCall.resps, i, r),
                !.settled = Put(groupsCall.settled, i,
                                GroupEntry(groupsCall.groups[i], collections)),
                !.pending = left,
                !.pc = IF left = {} THEN "returned" ELSE "collections"]
    /\ AloneGroups

NextGroups ==
    \/ GetGroups
    \/ GroupsReturn
    \/ \E i \in 1..MaxGroups : CollectionsReturn(i)

\* ------------------------------------------ POST /api/test-connections
AloneTest == UNCHANGED <<envVars, srvVars, clientVars, lookup, mapper, groupsCall, streamReader>>

\* A request arrives: await request.json()
TestPost ==
    /\ testCall.pc = "idle"
    /\ testCall' = [testCall EXCEPT !.pc = "body"]
    /\ AloneTest

\* request.json() returns or throws, and so does the reading of config; a
\* throw is answered with status 500.  Otherwise result is {zotero: false,
\* craft: false} and zoteroClient.getCollections() is awaited.
TestBody ==
    /\ testCall.pc = "body"
    /\ \E ok \in BOOLEAN :
        testCall' = IF ok THEN [testCall EXCEPT !.pc = "zotero", !.parsed = TRUE]
                    ELSE [testCall EXCEPT !.pc = "sent", !.response = "error"]
    /\ AloneTest

\* Mutant of TestZotero: the call is not in a try of its own, so its failure
\* is answered by the outer catch.
TestZoteroUncaught ==
    /\ testCall.pc = "zotero"
    /\ \E r \in Resp :
        testCall' = IF r = "ok"
                    THEN [testCall EXCEPT !.zoteroResp = r, !.zotero = TRUE,
                                          !.pc = "craft"]
                    ELSE [testCall EXCEPT !.zoteroResp = r, !.pc = "sent",
                                          !.response = "error"]
    /\ AloneTest

\* zoteroClient.getCollections() returns, or throws (a response that is not
\* ok, a rejected fetch); then craftClient.getCollections() is awaited.
TestZotero ==
    /\ testCall.pc = "zotero"
    /\ \E r \in Resp :
        testCall' = [testCall EXCEPT !.zoteroResp = r, !.zotero = (r = "ok"),
                                     !.pc = "craft"]
    /\ AloneTest

\* craftClient.getCollections() returns or throws; result is sent.
TestCraft ==
    /\ testCall.pc = "craft"
    /\ \E r \in Resp :
        testCall' = [testCall EXCEPT !.craftResp = r, !.craft = (r = "ok"),
                                     !.pc = "sent", !.response = "result"]
    /\ AloneTest

NextTest ==
    \/ TestPost
    \/ TestBody
    \/ TestZotero
    \/ TestCraft

\* The two endpoints beside the sync, each serving one request; the requests
\* are independent of each other.
NextEndpoints ==
    \/ NextGroups
    \/ NextTest

SpecEndpoints == InitEndpoints /\ [][NextEndpoints]_vars

\* ------------------------------------------------- the stream reader loop
\* The loop of syncNow that reads the response of /api/sync-now, taken at
\* the level of bytes: the route writes each line as
\* encoder.encode(JSON.stringify(log) + '\n'), and the transport hands the
\* bytes to reader.read() in chunks cut anywhere.
NL == "\n"
Backslash == "\\"
Eacute == "U+00E9"          \* a character of two bytes in UTF-8
LeadByte == "0xC3"
ContByte == "0xA9"
Replacement == "U+FFFD"     \* what a decoder puts for a malformed sequence

\* The log objects a stream is made of; a title is a sequence of characters.
LogTitles == { << "a" >>, << Eacute >>, << "a", NL >> }
LogObjects == [title : LogTitles]

\* JSON.stringify(log), the object's braces around its escaped text: a
\* newline in a string is written as the two characters \ and n.
RECURSIVE Escaped(_)
Escaped(t) ==
    IF t = <<>> THEN <<>>
    ELSE (IF Head(t) = NL THEN << Backslash, "n" >> ELSE << Head(t) >>)
         \o Escaped(Tail(t))
JSONstringify(log) == << "{" >> \o Escaped(log.title) \o << "}" >>

\* encoder.encode(text): UTF-8, two bytes for the character of two bytes
RECURSIVE encode(_)
encode(text) ==
    IF text = <<>> THEN <<>>
    ELSE (IF Head(text) = Eacute THEN << LeadByte, ContByte >> ELSE << Head(text) >>)
         \o encode(Tail(text))

\* The bytes of a whole response: one encoded line per log object.
RECURSIVE ResponseBytes(_)
ResponseBytes(sent) ==
    IF sent = <<>> THEN <<>>
    ELSE encode(JSONstringify(Head(sent)) \o << NL >>) \o ResponseBytes(Tail(sent))

\* The characters of a run of bytes that ends on a character boundary or is
\* flushed: a lead byte without its continuation and a continuation byte on
\* its own are malformed.
RECURSIVE decodeFrom(_, _)
decodeFrom(bytes, i) ==
    IF i > Len(bytes) THEN <<>>
    ELSE IF bytes[i] = LeadByte /\ i < Len(bytes) /\ bytes[i + 1] = ContByte
    THEN << Eacute >> \o decodeFrom(bytes, i + 2)
    ELSE IF bytes[i] \in {LeadByte, ContByte}
    THEN << Replacement >> \o decodeFrom(bytes, i + 1)
    ELSE << bytes[i] >> \o decodeFrom(bytes, i + 1)

\* decoder.decode(value, { stream: true }): the bytes the decoder held back
\* come first, and a lead byte at the end is held back for the next call.
decode(held, value) ==
    LET all == held \o value
        keep == IF all # <<>> /\ all[Len(all)] = LeadByte THEN 1 ELSE 0
    IN  [text |-> decodeFrom(SubSeq(all, 1, Len(all) - keep), 1),
         held |-> SubSeq(all, Len(all) - keep + 1, Len(all))]

\* buffer.split('\n'): the pieces between the newlines, the last one being
\* what follows the last newline (empty when the text ends with one).
RECURSIVE split(_, _, _)
split(text, i, piece) ==
    IF i > Len(text) THEN << piece >>
    ELSE IF text[i] = NL THEN << piece >> \o split(text, i + 1, <<>>)
    ELSE split(text, i + 1, Append(piece, text[i]))

\* !line.trim()
Blank(line) == Trim(line) = <<>>

\* JSON.parse(line): an object in braces whose text has every backslash
\* followed by n; anything else throws.
RECURSIVE Unescaped(_)
Unescaped(t) ==
    IF t = <<>> THEN <<>>
    ELSE IF Head(t) = Backslash
    THEN << NL >> \o Unescaped(Tail(Tail(t)))
    ELSE << Head(t) >> \o Unescaped(Tail(t))
Inner(line) == SubSeq(line, 2, Len(line) - 1)
Parses(line) ==
    /\ Len(line) >= 2
    /\ line[1] = "{"
    /\ line[Len(line)] = "}"
    /\ \A i \in DOMAIN Inner(line) :
          /\ Inner(line)[i] \notin {"{", "}"}
          /\ Inner(line)[i] = Backslash =>
                i < Len(Inner(line)) /\ Inner(line)[i + 1] = "n"
JSONparse(line) == [title |-> Unescaped(Inner(line))]

\* for (const line of lines): a blank line is passed over, a line that does
\* not parse is logged to the console, any other goes to the front of logs.
RECURSIVE Render(_, _)
Render(lines, log) ==
    IF lines = <<>> THEN log
    ELSE Render(Tail(lines),
                IF ~Blank(Head(lines)) /\ Parses(Head(lines))
                THEN << JSONparse(Head(lines)) >> \o log
                ELSE log)

AllButLast(pieces) == SubSeq(pieces, 1, Len(pieces) - 1)
Last(pieces) == pieces[Len(pieces)]

SentStreams == UNION { [1..n -> LogObjects] : n \in 0..MaxEvents }

InitReader ==
    /\ \E sent \in SentStreams :
          streamReader = [pc |-> "reading", sent |-> sent,
                          bytes |-> ResponseBytes(sent), pos |-> 0,
                          held |-> <<>>, buffer |-> <<>>, logs |-> <<>>,
                          cut |-> FALSE]
    /\ targetCollectionId = ""
    /\ parentDocumentId = ""
    /\ source = <<>>
    /\ coll = <<>>
    /\ doc = <<>>
    /\ InitServer
    /\ InitClient
    /\ lookup = NoLookup
    /\ mapper = NoMapping
    /\ groupsCall = NoGroups
    /\ testCall = NoTest

AloneReader == UNCHANGED <<envVars, srvVars, clientVars, lookup, mapper, groupsCall, testCall>>

\* Mutant of ReadChunk: the last piece is not kept for the next chunk but
\* handled as a line with the others.
ReadChunkKeepsNothing ==
    /\ streamReader.pc = "reading"
    /\ \E n \in 1..(Len(streamReader.bytes) - streamReader.pos) :
        LET value == SubSeq(streamReader.bytes, streamReader.pos + 1,
                            streamReader.pos + n)
            decoded == decode(streamReader.held, value)
            pieces == split(streamReader.buffer \o decoded.text, 1, <<>>)
        IN  streamReader' = [streamReader EXCEPT
                                !.pos = @ + n,
                                !.held = decoded.held,
                                !.cut = @ \/ value[n] # NL,
                                !.buffer = <<>>,
                                !.logs = Render(pieces, @)]
    /\ AloneReader

\* await reader.read() resolves with a chunk, any number of the bytes not
\* yet delivered: the chunk is decoded and added to the buffer, the buffer
\* is split at the newlines, the last piece stays in the buffer and the
\* others are handled as lines.  cut records that some chunk ended inside a
\* line.
ReadChunk ==
    /\ streamReader.pc = "reading"
    /\ \E n \in 1..(Len(streamReader.bytes) - streamReader.pos) :
        LET value == SubSeq(streamReader.bytes, streamReader.pos + 1,
                            streamReader.pos + n)
            decoded == decode(streamReader.held, value)
            pieces == split(streamReader.buffer \o decoded.text, 1, <<>>)
        IN  streamReader' = [streamReader EXCEPT
                                !.pos = @ + n,
                                !.held = decoded.held,
                                !.cut = @ \/ value[n] # NL,
                                !.buffer = Last(pieces),
                                !.logs = Render(AllButLast(pieces), @)]
    /\ AloneReader

\* await reader.read() resolves with done once the response has been
\* delivered whole: break.
ReadEnd ==
    /\ streamReader.pc = "reading"
    /\ streamReader.pos = Len(streamReader.bytes)
    /\ streamReader' = [streamReader EXCEPT !.pc = "done"]
    /\ AloneReader

\* await reader.read() rejects, the connection being lost: the catch puts
\* the failure entry at the front of logs.
ReadRejects ==
    /\ streamReader.pc = "reading"
    /\ streamReader' = [streamReader EXCEPT
                           !.pc = "failed",
                           !.logs = << [title |-> SyncFailure] >> \o @]
    /\ AloneReader

\* await reader.read() rejects with AbortError: the catch logs nothing.
ReadAborted ==
    /\ streamReader.pc = "reading"
    /\ streamReader' = [streamReader EXCEPT !.pc = "aborted"]
    /\ AloneReader

NextReader ==
    \/ ReadChunk
    \/ ReadEnd
    \/ ReadRejects
    \/ ReadAborted

SpecReader == InitReader /\ [][NextReader]_vars

\* ------------------------------------------------------------------ claims
\* Some shorthands on the state of the pass under way.
Fetched == idx >= 1
RecordStatuses == {"created", "skipped", "error"}
CreateKinds == {"create1", "create2", "note"}
EventsOf(k) == { j \in DOMAIN events : events[j].rec = k }
RequestsOf(k) == SelectSeq(reqs, LAMBDA q : q.rec = k)
\* The loop ran to the end of the batch: closed, fetched, never cancelled.
Exhausted == pc = "closed" /\ Fetched /\ ~aborted

\* C1: a record whose processing throws gets exactly one error line with its
\* title and the loop goes on: the per-record lines are, in batch order, one
\* per record handled so far, the line of record j is an error exactly when
\* record j threw, and a pass that is not cancelled reaches the last record.
C1_PerItemIsolation ==
    LET re == RecordEvents(events) IN
    /\ \A j \in 1..Len(re) :
        /\ re[j].rec = j
        /\ re[j].title = itemTitle(source[j])
        /\ re[j].status \in RecordStatuses
        /\ re[j].status = "error" <=> j \in thrown
    /\ thrown \subseteq 1..Len(re)
    /\ Fetched /\ pc # "closed" => idx \in {Len(re), Len(re) + 1}
    /\ Exhausted => Len(re) = Len(items)

\* Record 2 of three threw in its create call, records 1 and 3 got their lines.
C1_Witness ==
    /\ Exhausted
    /\ Len(items) = 3
    /\ thrown = {2}
    /\ ~MappingThrows(items[2])
    /\ \E q \in 1..Len(reqs) : reqs[q].rec = 2 /\ reqs[q].kind \in CreateKinds
    /\ RecordEvents(events)[3].status = "created"

C3_CancelStopsLoop ==
    /\ [][ pc = "loop" /\ aborted =>
             /\ pc' = "closed"
             /\ closed' = closed + 1
             /\ UNCHANGED <<events, reqs, idx, coll, doc>> ]_vars
    /\ [][ pc = "closed" /\ pass' = pass =>
             UNCHANGED <<pc, events, reqs, idx, coll, doc>> ]_vars

\* The loop broke at the top of iteration idx, after idx - 1 records.
C3_Witness ==
    /\ pc = "closed"
    /\ aborted
    /\ idx \in 2..Len(items)
    /\ Len(RecordEvents(events)) = idx - 1
    /\ \A q \in 1..Len(reqs) : reqs[q].rec < idx

\* C4: once the caller has stopped a pass, its log starts with the one
\* warning of the stop, below it are the lines read before, latest first,
\* and nothing is put on top of the warning until the log is cleared for a
\* new pass.
C4_StopIsTerminalWarning ==
    /\ started >= 1 /\ started \in ctrlAborted =>
        logs # <<>> /\ logs[1] = StopEntry(started)
    /\ \A j \in DOMAIN logs :
        logs[j].title = SyncStopped =>
            /\ j = 1
            /\ logs[j] = StopEntry(started)
            /\ Len(logs) = delivered + 1
            /\ \A i \in 1..delivered :
                logs[1 + i] = LogEntry(events[delivered + 1 - i], started)

\* A pass stopped after a record's line was read, while the route went on.
C4_Witness ==
    /\ started \in ctrlAborted
    /\ pass = started
    /\ \E j \in DOMAIN logs : logs[j].rec >= 1
    /\ Len(events) > delivered
    /\ pc = "closed"

\* C5: once the fetch of the batch has failed the pass is over: the stream is
\* closed, its last line is the only error line, no record has a line and
\* no request went to the destination.
FetchFailed ==
    /\ ~Fetched
    /\ pc \notin {"idle", "fetch"}
    /\ \E j \in DOMAIN events : events[j] = FetchLog

C5_FetchFailureEndsPass ==
    FetchFailed =>
        /\ pc = "closed"
        /\ closed = 1
        /\ events[Len(events)].status = "error"
        /\ events[Len(events)].details = "Failed to fetch Zotero items"
        /\ Cardinality({ j \in DOMAIN events : events[j].status = "error" }) = 1
        /\ RecordEvents(events) = <<>>
        /\ reqs = <<>>

C5_Witness == FetchFailed /\ Len(source) > 0 /\ targetCollectionId # ""

\* C6: a pass that fetched its batch and was not cancelled ends with exactly
\* one line per record, a created, skipped or error line with the record's
\* title.
C6_OneEventPerRecord ==
    Exhausted =>
        /\ \A k \in 1..Len(items) :
            /\ Cardinality(EventsOf(k)) = 1
            /\ \A j \in EventsOf(k) :
                /\ events[j].status \in RecordStatuses
                /\ events[j].title = itemTitle(items[k])
        /\ \A j \in DOMAIN events : events[j].rec \in 0..Len(items)

C6_Witness ==
    /\ Exhausted
    /\ Len(items) = 3
    /\ { events[j].status : j \in DOMAIN events } \cap RecordStatuses = RecordStatuses

\* C7: a skipped record has one line, one request (its existence check) and
\* its title is in the destination; and the step in which the existence
\* check finds the title adds the skipped line and nothing else.
SkippedEvent == Event(CurrentTitle, "skipped", "Already exists in Craft", idx)

C7_SkipDoesNothingElse ==
    /\ [](\A j \in DOMAIN events :
            events[j].status = "skipped" =>
                LET k == events[j].rec IN
                /\ EventsOf(k) = {j}
                /\ RequestsOf(k) = << Request("check", k) >>
                /\ k \notin thrown
                /\ checkItemExists(targetCollectionId, parentDocumentId,
                                   events[j].title, "ok", coll, doc))
    /\ [][ /\ pc = "check"
           /\ checkResp' = "ok"
           /\ checkItemExists(targetCollectionId, parentDocumentId,
                              CurrentTitle, "ok", coll, doc)
           => /\ events' = Append(events, SkippedEvent)
              /\ pc' = "loop"
              /\ UNCHANGED <<reqs, coll, doc, thrown>> ]_vars

\* A record was skipped on a title that differs from the destination's.
C7_Witness ==
    /\ Exhausted
    /\ \E j \in DOMAIN events :
        /\ events[j].status = "skipped"
        /\ events[j].title = <<"F">>
        /\ events[j].rec < Len(items)

\* C8 as stated: a record for which step 2 of createCollectionItem was
\* issued and has returned is reported as created.
C8_Step2NeverFailsCreate ==
    \A k \in 1..Len(items) :
        /\ k < idx
        /\ \E q \in 1..Len(reqs) : reqs[q] = Request("create2", k)
        => \A j \in EventsOf(k) : events[j].status = "created"

\* C9: the step in which the existence check's fetch fails neither skips the
\* record nor reports an error for the check: the mapping runs, and unless
\* it throws the create is issued.
C9_FailOpen ==
    [][ pc = "check" /\ checkResp' \in {"http", "net"} =>
          IF MappingThrows(CurrentRecord)
          THEN /\ events' = Append(events, Event(CurrentTitle, "error", "err.message", idx))
               /\ reqs' = reqs
          ELSE /\ events' = events
               /\ pc' \in {"create1", "note"}
               /\ reqs' = Append(reqs, Request(pc', idx)) ]_vars

\* A record was created although its title is in the destination.
C9_Witness ==
    /\ checkResp \in {"http", "net"}
    /\ pc = "loop"
    /\ events[Len(events)].status = "created"
    /\ checkItemExists(targetCollectionId, parentDocumentId,
                       events[Len(events)].title, "ok", coll, doc)

\* What is left of a string between its first and its last character that
\* is not whitespace.
Stripped(s) ==
    LET solid == { i \in 1..Len(s) : s[i] \notin Whitespace } IN
    IF solid = {} THEN <<>>
    ELSE SubSeq(s, CHOOSE i \in solid : \A j \in solid : i <= j,
                   CHOOSE i \in solid : \A j \in solid : i >= j)

\* C10: given a listing, checkItemExists returns true exactly when, with a
\* collection id, some item's title equals the record's title once both are
\* stripped; or, without one but with a parent document, some page block's
\* text does; with neither it returns false.
C10_TitleMatch ==
    lookup.called /\ lookup.resp = "ok" =>
        lookup.result =
            IF lookup.collectionId # ""
            THEN \E k \in DOMAIN lookup.listing :
                    Stripped(lookup.listing[k].text) = Stripped(lookup.title)
            ELSE IF lookup.parentDocumentId # ""
            THEN \E k \in DOMAIN lookup.listing :
                    /\ lookup.listing[k].type = "page"
                    /\ Stripped(lookup.listing[k].text) = Stripped(lookup.title)
            ELSE FALSE

\* An item titled "F " is found for the record titled " F".
C10_Witness ==
    /\ lookup.called
    /\ lookup.resp = "ok"
    /\ lookup.collectionId # ""
    /\ lookup.title = <<" ", "F">>
    /\ lookup.listing = << [type |-> "text", text |-> <<"F", " ">>] >>
    /\ lookup.result

\* C11: with a target collection the pass calls getCollectionSchema once, and
\* before it asks the source for the batch; when the call fails the stream
\* has one warning, followed by the line of the fetch, the schema is empty
\* and so is the Property Map of every create of the pass; when it does not
\* fail there is no warning.
Warnings == { j \in DOMAIN events : events[j].status = "warning" }
FetchStarted == \E j \in DOMAIN events : events[j] = FetchLog

C11_SchemaBestEffort ==
    /\ schemaFetches = IF targetCollectionId # "" /\ (pc = "schema" \/ FetchStarted)
                       THEN 1 ELSE 0
    /\ pc = "schema" => ~FetchStarted /\ ~Fetched
    /\ schemaFailed =>
        /\ Cardinality(Warnings) = 1
        /\ \A j \in Warnings :
            events[j] = SchemaWarning /\ j < Len(events) /\ events[j + 1] = FetchLog
        /\ schemaMap = EmptyMap
        /\ properties = EmptyMap
        /\ createCall.kind = "createCollectionItem" => createCall.properties = EmptyMap
    /\ ~schemaFailed => Warnings = {}

\* After a failed schema fetch a record with every field set was created,
\* with an empty Property Map.
C11_Witness ==
    /\ schemaFailed
    /\ Exhausted
    /\ createCall.kind = "createCollectionItem"
    /\ createCall.properties = EmptyMap
    /\ \E j \in DOMAIN events :
        /\ events[j].status = "created"
        /\ events[j].rec >= 1
        /\ items[events[j].rec].key = "k1"
\* C12: the requests of a pass go out one at a time and record by record:
\* at most one request is without its answer, requests are issued in batch
\* order, and when the existence check of a record is issued every earlier
\* request has been answered and every earlier record has its line.
Outstanding == Len(reqs) - answered

C12_Sequential ==
    /\ [](/\ Outstanding \in {0, 1}
          /\ Outstanding = 1 <=> pc \in {"create1", "create2", "note"}
                                  \/ (pc = "check" /\ CheckFetches(targetCollectionId,
                                                                   parentDocumentId))
          /\ \A q \in 1..(Len(reqs) - 1) : reqs[q].rec <= reqs[q + 1].rec)
    /\ [][ Len(reqs') > Len(reqs) =>
             /\ reqs' = Append(reqs, reqs'[Len(reqs')])
             /\ answered' = Len(reqs)
             /\ reqs'[Len(reqs')].kind = "check" =>
                    \A k \in 1..(reqs'[Len(reqs')].rec - 1) :
                        /\ Cardinality(EventsOf(k)) = 1
                        /\ \E q \in 1..Len(reqs) : reqs[q].rec = k ]_vars

\* The existence check of record 3 is under way after records 1 and 2 went
\* through both steps of a create.
C12_Witness ==
    /\ pc = "check"
    /\ idx = 3
    /\ Outstanding = 1
    /\ \A k \in 1..2 : \E q \in 1..Len(reqs) : reqs[q] = Request("create2", k)
\* C13 as stated: the caller starts a pass, that is syncNow gets past its
\* guard and sends the request, only when no pass is running on the server.
C13_PassesNeverOverlap ==
    [][ started' > started => pc \in {"idle", "closed"} ]_vars
\* C14: the signal does not interrupt a record.  The stream of a pass that
\* has its batch is closed only by the step at the top of an iteration; the
\* steps of a record whose existence check or create is in flight are the
\* same with the signal set as without it, so every record the loop has
\* begun gets its line and every request its answer, also in a pass that
\* ends cancelled.
C14_NotPreemptive ==
    /\ [](Fetched =>
            /\ \A k \in 1..(idx - 1) : Cardinality(EventsOf(k)) = 1
            /\ pc = "closed" => Outstanding = 0
            /\ pc = "closed" /\ idx <= Len(items) => aborted)
    /\ [][ Fetched /\ closed' > closed => pc = "loop" ]_vars
    /\ [][ aborted /\ pc \in {"check", "create1", "create2", "note"} /\ pc' # pc =>
             /\ closed' = closed
             /\ pc' \in {"loop", "create1", "create2", "note"}
             /\ pc' = "loop" =>
                    /\ idx' = idx + 1
                    /\ \E st \in RecordStatuses :
                        events' = Append(events, Event(CurrentTitle, st,
                                                       events'[Len(events')].details, idx))
             /\ pc \in {"create2", "note"} /\ thrown' = thrown =>
                    events'[Len(events')].status = "created" ]_vars

\* A pass of two records ended cancelled after it created the first: the
\* signal was set while record 1 was in flight.
C14_Witness ==
    /\ pc = "closed"
    /\ aborted
    /\ Len(items) = 2
    /\ idx = 2
    /\ events[Len(events)].status = "created"
    /\ events[Len(events)].rec = 1
\* C15.  The lines of a stream, as the claim lists them: the line of the
\* connection, at most one warning, the line of the fetch, then a last error
\* line or the summary followed by lines of records only.
FetchLine == IF Len(events) >= 2 /\ events[2].status = "warning" THEN 3 ELSE 2

StreamAsListed ==
    /\ events[1].rec = 0 /\ events[1].status = "info"
    /\ Len(events) >= 2 =>
         events[2].rec = 0 /\ events[2].status \in {"warning", "info"}
    /\ Len(events) >= FetchLine => events[FetchLine] = FetchLog
    /\ Len(events) > FetchLine =>
         LET e == events[FetchLine + 1] IN
         /\ e.rec = 0
         /\ \/ e.status = "error" /\ Len(events) = FetchLine + 1 /\ pc = "closed"
            \/ /\ e.status = "success"
               /\ \A j \in (FetchLine + 2)..Len(events) :
                    events[j].rec >= 1 /\ events[j].status \in RecordStatuses
    /\ pc = "closed" => Len(events) > FetchLine

\* C15 as stated: the stream of every pass is as listed.
C15_StreamAsStated == pass >= 1 => StreamAsListed

\* The stream of a pass whose request body could not be read.
BodyUnreadable ==
    /\ pc = "closed"
    /\ Len(events) = 2
    /\ events[1].rec = 0 /\ events[1].status = "info"
    /\ events[2] = Event(System, "error", "Critical sync failure", 0)

Steps ==
    { <<"idle", "body">>, <<"closed", "body">>,
      <<"body", "schema">>, <<"body", "fetch">>, <<"body", "closed">>,
      <<"schema", "fetch">>, <<"fetch", "loop">>, <<"fetch", "closed">>,
      <<"loop", "check">>, <<"loop", "closed">>,
      <<"check", "loop">>, <<"check", "create1">>, <<"check", "note">>,
      <<"create1", "create2">>, <<"create1", "loop">>, <<"create2", "loop">>,
      <<"note", "loop">> }

\* C15, amended: the stream of a pass is as listed, or, when the request
\* body could not be read, the line of the connection followed by a last
\* error line; the pass goes through its stages in order, visits the
\* records in batch order and ends once: with every record reported, or
\* cancelled, or on a fatal error before it has a batch.
C15_Lifecycle ==
    /\ [](pass >= 1 =>
            /\ BodyUnreadable \/ StreamAsListed
            /\ closed = IF pc = "closed" THEN 1 ELSE 0
            /\ pc = "closed" /\ Fetched =>
                 \/ idx = Len(items) + 1 /\ Len(RecordEvents(events)) = Len(items)
                 \/ idx <= Len(items) /\ aborted
            /\ pc = "closed" /\ ~Fetched =>
                 events[Len(events)].status = "error" /\ events[Len(events)].rec = 0
            /\ Fetched =>
                 Len(events) > FetchLine /\ events[FetchLine + 1].status = "success")
    /\ [][ pc' # pc => <<pc, pc'>> \in Steps ]_vars
    /\ [][ idx' # idx /\ pass' = pass => idx' = idx + 1 ]_vars

\* A pass with a schema warning reported its two records and ended.
C15_Witness ==
    /\ Exhausted
    /\ FetchLine = 3
    /\ Len(items) = 2
    /\ Len(events) = 6
\* C16: a pass that has started closes its stream, whatever the batch and
\* whichever of its calls fail, as long as every call returns or fails.
C16_EveryPassEnds == (pc = "body") ~> (pc = "closed" /\ closed = 1)

\* A pass of three records ended although two of them threw.
C16_Witness ==
    /\ Exhausted
    /\ closed = 1
    /\ Len(items) = 3
    /\ Cardinality(thrown) = 2

\* The create operations attempted for record k: step one of
\* createCollectionItem, or the POST of createNote.
CreateAttempts(k) ==
    SelectSeq(reqs, LAMBDA q : q.rec = k /\ q.kind \in {"create1", "note"})
Skipped(k) == \E j \in EventsOf(k) : events[j].status = "skipped"
InCreate == pc \in {"create1", "create2", "note"}
PastCheck(k) == k < idx \/ (k = idx /\ InCreate)
ExpectedCall ==
    IF targetCollectionId # ""
    THEN [kind |-> "createCollectionItem",
          collectionId |-> targetCollectionId,
          title |-> CurrentTitle,
          body |-> markdownBody(ItemData(CurrentRecord)),
          properties |-> mapProperties(schemaMap, ItemData(CurrentRecord))]
    ELSE [kind |-> "createNote", title |-> CurrentTitle,
          body |-> markdownBody(ItemData(CurrentRecord)),
          tags |-> formattedTags(ItemData(CurrentRecord).tags)]

Declared == SchemaMapOf(mapper.schema)
Produced == mapper.properties
Range(seq) == { seq[i] : i \in DOMAIN seq }
\* The fields whose identifier got a value
Valued == { name \in DOMAIN Declared : Declared[name].key \in DOMAIN Produced }
ValueOf(name) == Produced[Declared[name].key]
ClosedChoice(f) ==
    f.type = "select" \/ (f.type = "multiSelect" /\ f.options # <<>>)
InVocabulary(v, options) ==
    \/ v.shape = "string" /\ v.val \in Range(options)
    \/ v.shape = "array" /\ \A i \in DOMAIN v.val : v.val[i] \in Range(options)

\* C18: whatever the record and the schema, the value the Property Map holds
\* for a select field, or for a multiSelect field that has options, is one
\* of the field's options, or an array of them.
C18_NoOutOfVocabulary ==
    mapper.called =>
        \A name \in Valued :
            ClosedChoice(Declared[name]) =>
                InVocabulary(ValueOf(name), Declared[name].options)

ShapeOf(type) ==
    CASE type = "number" -> {"number"}
      [] type \in {"text", "richText", "url", "date", "select"} -> {"string"}
      [] type = "multiSelect" -> {"array"}
      [] OTHER -> {"number", "string", "array"}

\* C19: whatever the record and the schema, the value the Property Map holds
\* for a field is a number when the field is a number field, a string when
\* it is a text, richText, url, date or select field, and an array when it
\* is a multiSelect field.
C19_ShapeByType ==
    mapper.called =>
        \A name \in Valued : ValueOf(name).shape \in ShapeOf(Declared[name].type)

\* The value a semantic field is set from.
SourceValue(name, record) ==
    CASE name = "Authors" -> formatAuthors(record.creators)
      [] name = "Year" -> extractYear(record.date)
      [] name = "Journal" -> record.publicationTitle
      [] name = "URL" -> IF record.url # <<>> THEN record.url ELSE record.DOI
      [] name = "Date added" -> dateAddedOf(record)
      [] name = "Publication type" -> formatItemType(record.itemType)
      [] name = "Tags" -> formattedTags(record.tags)
      [] name = "Reading status" -> ToRead

\* C20: every key of the Property Map is the identifier of a field of the
\* schema that has one of the semantic names; a semantic field of the schema
\* whose source value is empty gets no value (a field that is not in the
\* schema has no identifier to get one); and the map of an empty schema is
\* empty.
C20_KeysNeverInvented ==
    mapper.called =>
        /\ \A k \in DOMAIN Produced :
              \E name \in DOMAIN Declared \cap SemanticNames : Declared[name].key = k
        /\ \A name \in DOMAIN Declared \cap SemanticNames :
              SourceValue(name, mapper.record) = <<>> => name \notin Valued
        /\ Declared = EmptyMap => Produced = EmptyMap

\* A string that is an integer: digits only, after an optional sign, spaces
\* around it aside.
Numeric(s) ==
    LET t == Trim(s)
        u == IF t # <<>> /\ Head(t) \in {"+", "-"} THEN Tail(t) ELSE t
    IN u # <<>> /\ \A i \in DOMAIN u : IsIn(u[i], Digit)
StringFields == SemanticNames \ {"Tags"}

\* C21: a number field set from a string holds the integer the string
\* denotes when the string is an integer, and has no entry when it is not.
C21_NumberExactlyWhenNumeric ==
    mapper.called =>
        \A name \in DOMAIN Declared \cap StringFields :
            Declared[name].type = "number" =>
                LET v == SourceValue(name, mapper.record) IN
                IF Numeric(v)
                THEN name \in Valued /\ ValueOf(name) = Num(parseInt(v))
                ELSE name \notin Valued

TagsDeclared == Declared["Tags"]
ClosedTags ==
    /\ "Tags" \in DOMAIN Declared
    /\ TagsDeclared.type = "multiSelect"
    /\ TagsDeclared.options # <<>>
\* The rendered tags that are, their marker and case aside, an option
MatchedTags ==
    SelectSeq(formattedTags(mapper.record.tags), LAMBDA t :
        \E o \in Range(TagsDeclared.options) : toLowerCase(o) = toLowerCase(Tail(t)))

\* C22: when Tags is a multiSelect field with options, it has no entry if no
\* rendered tag is, its marker and case aside, an option; otherwise its
\* entry is an array with, for each such tag in order, the option it is.
C22_TagsAreMatchedOptions ==
    (mapper.called /\ ClosedTags) =>
        IF MatchedTags = <<>>
        THEN "Tags" \notin Valued
        ELSE /\ "Tags" \in Valued
             /\ ValueOf("Tags").shape = "array"
             /\ LET v == ValueOf("Tags").val IN
                /\ Len(v) = Len(MatchedTags)
                /\ \A i \in DOMAIN v :
                      /\ v[i] \in Range(TagsDeclared.options)
                      /\ toLowerCase(v[i]) = toLowerCase(Tail(MatchedTags[i]))

\* Of two tags one is an option but for its case: the entry is that option.
C22_Witness ==
    /\ mapper.called
    /\ ClosedTags
    /\ Len(mapper.record.tags) = 2
    /\ Len(MatchedTags) = 1
    /\ ValueOf("Tags") = Arr(<< OptAI >>)

StatusDeclared == Declared["Reading status"]
ChoiceStatus ==
    /\ "Reading status" \in DOMAIN Declared
    /\ StatusDeclared.type \in {"select", "multiSelect"}
SeedIsOption ==
    \E o \in Range(StatusDeclared.options) : toLowerCase(o) = toLowerCase(ToRead)
WaitingOptions ==
    SelectSeq(StatusDeclared.options, LAMBDA o : toLowerCase(o) = Waiting)
Selects(v, option) ==
    \/ v.shape = "string" /\ v.val = option
    \/ v.shape = "array" /\ v.val = << option >>

\* C23: when 'Reading status' is a select or multiSelect field none of whose
\* options is 'To Read' (case aside), the mapper returns a map in which the
\* field's value is the option 'Waiting' (the first that is it, case aside)
\* if there is one, and in which the field has no entry if there is none.
C23_SeedRemapsToWaiting ==
    (mapper.called /\ ChoiceStatus /\ ~SeedIsOption) =>
        IF WaitingOptions # <<>>
        THEN /\ "Reading status" \in Valued
             /\ Selects(ValueOf("Reading status"), WaitingOptions[1])
        ELSE "Reading status" \notin Valued

\* A select field with the options Waiting and Done: Waiting is selected.
C23_Witness ==
    /\ mapper.called
    /\ ChoiceStatus
    /\ StatusDeclared.type = "select"
    /\ StatusDeclared.options = << OptWaiting, OptDone >>
    /\ ValueOf("Reading status") = Str(OptWaiting)

\* ------------------------------------------------------------ getGroups
GroupsEnded == groupsCall.pc \in {"returned", "thrown"}

\* C24: getGroups throws exactly when the fetch of the group list fails;
\* otherwise it returns one entry per group, in the order of the group list,
\* with the group's id and name, and with the collections the group's
\* endpoint lists when the group's own fetch succeeded and none when it
\* failed, whatever the fetches of the other groups did.
C24_PerGroupDegradation ==
    GroupsEnded =>
        /\ (groupsCall.pc = "thrown") <=> (groupsCall.listResp # "ok")
        /\ groupsCall.pc = "returned" =>
              /\ DOMAIN groupsCall.settled = DOMAIN groupsCall.groups
              /\ \A i \in DOMAIN groupsCall.groups :
                    LET g == groupsCall.groups[i] IN
                    groupsCall.settled[i] =
                        [groupId |-> g.id, groupName |-> g.name,
                         collections |-> IF groupsCall.resps[i] = "ok"
                                         THEN CollectionsOf(g.id) ELSE << >>]

\* Of two groups the fetch of the first was rejected and that of the second
\* succeeded: the first has no collections, the second keeps its own.
C24_Witness ==
    /\ groupsCall.pc = "returned"
    /\ Len(groupsCall.groups) = 2
    /\ groupsCall.resps[1] = "net"
    /\ groupsCall.resps[2] = "ok"
    /\ groupsCall.settled[1].collections = << >>
    /\ groupsCall.settled[2].collections # << >>

\* C25: no step of a pass, whatever the pass comes to, changes the
\* configuration it was given: the collection and parent document selectors
\* stay as they were.
C25_ConfigNotMutated ==
    [][ /\ targetCollectionId' = targetCollectionId
        /\ parentDocumentId' = parentDocumentId ]_vars

\* A pass whose schema fetch failed has ended, with both selectors still set.
C25_Witness ==
    /\ pc = "closed"
    /\ schemaFailed
    /\ Fetched
    /\ targetCollectionId = "col"
    /\ parentDocumentId = "doc"

\* ------------------------------------------------------------ end to end
\* The batch is the one record with a creator, a date with a month, a tag
\* of two words and no abstract, and no collection is configured.
Scenario ==
    /\ Len(items) = 1
    /\ items[1].key = "k2"
    /\ targetCollectionId = ""
Lines(body) == { body[i] : i \in DOMAIN body }
HeadingsInOrder(body) ==
    \E a, b, c, d \in DOMAIN body :
        /\ a < b /\ b < c /\ c < d
        /\ body[a] = << "## Key Ideas" >>
        /\ body[b] = << "## Quotes" >>
        /\ body[c] = << "## Critique" >>
        /\ body[d] = << "## Related Work" >>

\* C26: when that pass has run to its end, the record not being in the
\* destination and its create not failing, the one create attempted is
\* createNote, the body it was given has the lines of the author, of the
\* year 2015, of the tag #m_l and of the placeholder for the abstract, then
\* the four headings in order, and the only per-record line is `created`.
C26_EndToEnd ==
    (Scenario /\ Exhausted /\ ~Skipped(1) /\ thrown = {}) =>
        /\ CreateAttempts(1) = << Request("note", 1) >>
        /\ createCall.kind = "createNote"
        /\ << "**Authors:** ", "N" >> \in Lines(createCall.body)
        /\ << "**Year:** ", "2", "0", "1", "5" >> \in Lines(createCall.body)
        /\ << "**Tags:** ", "#", "m", "_", "l" >> \in Lines(createCall.body)
        /\ NoAbstract \in Lines(createCall.body)
        /\ HeadingsInOrder(createCall.body)
        /\ RecordEvents(events) = << Event(itemTitle(items[1]), "created", "", 1) >>

\* The pass of the scenario has ended with the record created as a subpage
\* of the parent document.
C26_Witness ==
    /\ Scenario
    /\ Exhausted
    /\ parentDocumentId = "doc"
    /\ events[Len(events)].status = "created"
    /\ doc # <<>>
    /\ doc[Len(doc)] = [type |-> "page", markdown |-> itemTitle(items[1])]

\* ---------------------------------------------------- test-connections
\* C27: a connectivity check that could read its request answers with one
\* flag per service; both calls have been made whatever the first came to,
\* the flag of the source is true exactly when the source's call succeeded,
\* and the flag of the destination exactly when the destination's did.
C27_FlagsIndependent ==
    (testCall.pc = "sent" /\ testCall.parsed) =>
        /\ testCall.response = "result"
        /\ testCall.zoteroResp \in Resp
        /\ testCall.craftResp \in Resp
        /\ testCall.zotero <=> (testCall.zoteroResp = "ok")
        /\ testCall.craft <=> (testCall.craftResp = "ok")

\* The source's call failed and the destination's succeeded.
C27_Witness ==
    /\ testCall.pc = "sent"
    /\ testCall.zoteroResp = "net"
    /\ testCall.craftResp = "ok"
    /\ ~testCall.zotero
    /\ testCall.craft

\* ------------------------------------------------------------- no retry
ChecksOf(k) == SelectSeq(reqs, LAMBDA q : q.rec = k /\ q.kind = "check")
Reported(k) == EventsOf(k) # {}
Grows(old, new) ==
    /\ Len(new) >= Len(old)
    /\ \A j \in DOMAIN old : new[j] = old[j]
Added(old, new) == { new[j] : j \in (Len(old) + 1)..Len(new) }

\* C28: within a pass a record of the batch has at most one existence check,
\* at most one create attempt and at most one line, requests are issued in
\* the order of the batch, and once a record has its line (skipped, error or
\* created) the loop is past it and, until the next request arrives, the
\* loop does not go back and no request or line is added for that record.
C28_NoRetry ==
    /\ [](\A k \in 1..Len(items) :
            /\ Len(ChecksOf(k)) <= 1
            /\ Len(CreateAttempts(k)) <= 1
            /\ Cardinality(EventsOf(k)) <= 1
            /\ Reported(k) => k < idx)
    /\ [](\A i, j \in DOMAIN reqs : i < j => reqs[i].rec <= reqs[j].rec)
    /\ [][ pass' = pass =>
             /\ idx' >= idx
             /\ Grows(reqs, reqs')
             /\ Grows(events, events')
             /\ \A q \in Added(reqs, reqs') : ~Reported(q.rec)
             /\ \A e \in Added(events, events') : e.rec >= 1 => ~Reported(e.rec) ]_vars

\* A pass of three records has run to its end: the first was skipped, the
\* second errored after its create was attempted, and the third was created;
\* each of them was looked up once.
C28_Witness ==
    /\ Exhausted
    /\ Len(items) = 3
    /\ Skipped(1)
    /\ \E j \in EventsOf(2) : events[j].status = "error"
    /\ Len(CreateAttempts(2)) = 1
    /\ \E j \in EventsOf(3) : events[j].status = "created"
    /\ \A k \in 1..3 : Len(ChecksOf(k)) = 1

\* --------------------------------------------------------- stream reader
RECURSIVE Reverse(_)
Reverse(q) == IF q = <<>> THEN <<>> ELSE Append(Reverse(Tail(q)), Head(q))

\* The log objects whose line, newline included, is among the bytes
\* delivered so far.
LineEnds == { i \in 1..streamReader.pos : streamReader.bytes[i] = NL }
Received == SubSeq(streamReader.sent, 1, Cardinality(LineEnds))
FailureShown == IF streamReader.pc = "failed" THEN << [title |-> SyncFailure] >> ELSE <<>>

\* C29: however the bytes of the response are cut into chunks, at every
\* moment logs is, after the failure entry if the read failed, the log
\* objects whose lines have been received whole, each once, the most recent
\* first.
C29_ReverseOfReceived ==
    streamReader.pc # "none" =>
        streamReader.logs = FailureShown \o Reverse(Received)

\* The whole of a response of two different lines has been rendered, a
\* chunk having ended inside a line.
C29_Witness ==
    /\ streamReader.pc = "done"
    /\ streamReader.cut
    /\ Len(streamReader.sent) = 2
    /\ streamReader.sent[1] # streamReader.sent[2]
    /\ streamReader.logs = << streamReader.sent[2], streamReader.sent[1] >>

\* ------------------------------------------------- failure outside the try
CriticalLine == Event(System, "error", "Critical sync failure", 0)
OuterCatchRan == \E j \in DOMAIN events : events[j] = CriticalLine

\* C30: whenever the line of the outer catch is on the stream of a pass, the
\* stream is the line of the connection followed by that line and is closed
\* once, and the pass has issued no schema fetch, has fetched no batch, has
\* made no request to the destination and has thrown for no record.
C30_OuterFailureIsFatal ==
    OuterCatchRan =>
        /\ Len(events) = 2
        /\ events[1] = Event(System, "info", "Connecting to Zotero...", 0)
        /\ events[2] = CriticalLine
        /\ pc = "closed"
        /\ closed = 1
        /\ schemaFetches = 0
        /\ ~Fetched
        /\ items = <<>>
        /\ reqs = <<>>
        /\ thrown = {}

\* The body of the second request could not be read, with a record waiting
\* at the source and a collection configured.
C30_Witness ==
    /\ OuterCatchRan
    /\ pass = 2
    /\ Len(source) = 1
    /\ targetCollectionId # ""
    /\ pc = "closed"

\* ------------------------------------------------- a fresh map per record
\* The Property Map the route builds for record k of the batch, given the
\* schema of the pass.
OwnMap(k) == mapProperties(schemaMap, ItemData(items[k]))

\* C31: while the create of a record is under way, the Property Map of the
\* iteration, which is the one a createCollectionItem call was given, is the
\* map that the record's own fields and the schema produce: it has no key
\* the record does not produce, whatever the records before it produced.
C31_FreshPerRecord ==
    InCreate =>
        /\ DOMAIN properties = DOMAIN OwnMap(idx)
        /\ \A k \in DOMAIN properties : properties[k] = OwnMap(idx)[k]
        /\ createCall.kind = "createCollectionItem" =>
              createCall.properties = OwnMap(idx)

\* The create of the second record is under way with a map of one entry,
\* the first record having been created with a map that had one more key.
C31_Witness ==
    /\ InCreate
    /\ idx = 2
    /\ CreateAttempts(1) # <<>>
    /\ createCall.kind = "createCollectionItem"
    /\ Cardinality(DOMAIN properties) = 1
    /\ \E k \in DOMAIN OwnMap(1) : k \notin DOMAIN properties

\* ------------------------------------------------------- repeated titles
SameTitle(i, j) == Trim(itemTitle(items[i])) = Trim(itemTitle(items[j]))
Created(k) == \E j \in EventsOf(k) : events[j].status = "created"
\* Every existence check of the pass so far got its listing.
ListingsHeld ==
    /\ CheckFetches(targetCollectionId, parentDocumentId)
    /\ ~lookupFailed
ReportedPairs ==
    { p \in (1..Len(items)) \X (1..Len(items)) :
        p[1] < p[2] /\ p[2] < idx /\ SameTitle(p[1], p[2]) }

\* C32 as stated: in a pass whose existence checks got their listings, a
\* reported record that has the trimmed title of a record before it in the
\* batch was skipped.
C32_LaterOnesSkipped ==
    ListingsHeld => \A p \in ReportedPairs : Skipped(p[2])

\* C32: in a pass whose existence checks got their listings, of two reported
\* records with the same trimmed title (a record without a title going by
\* 'Untitled') at most one was created, and the later one was skipped when
\* the earlier one was created or skipped; the later one had a create
\* attempted only when the earlier one ended in an error.
C32_NoDuplicateCreate ==
    ListingsHeld =>
        \A p \in ReportedPairs :
            /\ ~(Created(p[1]) /\ Created(p[2]))
            /\ (Created(p[1]) \/ Skipped(p[1])) => Skipped(p[2])
            /\ CreateAttempts(p[2]) # <<>> =>
                  \E j \in EventsOf(p[1]) : events[j].status = "error"

\* A pass of three records ended in which the first of two records without
\* a title was created as 'Untitled' and the second was skipped under that
\* title.
C32_Witness ==
    /\ Exhausted
    /\ ListingsHeld
    /\ Len(items) = 3
    /\ items[1].title = NoTitle /\ items[2].title = NoTitle
    /\ Created(1)
    /\ Skipped(2)
    /\ events[Len(events) - 1].title = Untitled
    /\ items[3].title = <<"F">>

\* ------------------------------------------------- an older pass ends late
Unfinished(c) == inv[c] \in {"fetching", "reading"}
Finishes(c) == Unfinished(c) /\ ~Unfinished(c)'

\* C33: the step in which an invocation of syncNow stopped with Stop Sync
\* finishes after a newer invocation has started changes neither syncing nor
\* the ref nor the last-sync time; the ref, when set, holds the controller
\* of the newest invocation, which holds it for as long as it is neither
\* finished nor stopped; and the step of Stop Sync that puts its warning on
\* the log aborts the controller of the newest invocation.
C33_LateEndLeavesNewer ==
    /\ [][ \A c \in Invocations :
              c < started /\ c \in ctrlAborted /\ Finishes(c) =>
                 UNCHANGED <<syncing, abortControllerRef, lastSyncTime>> ]_vars
    /\ [](/\ abortControllerRef # 0 => abortControllerRef = started /\ syncing
          /\ started >= 1 /\ Unfinished(started) /\ started \notin ctrlAborted =>
                abortControllerRef = started /\ syncing)
    /\ [][ logs' # logs /\ logs' # <<>> /\ logs'[1].title = SyncStopped =>
              /\ started \in ctrlAborted' \ ctrlAborted
              /\ ~syncing'
              /\ abortControllerRef' = 0 ]_vars

\* The first invocation, stopped, has not finished yet while the second
\* is reading its stream, the flag being set and the ref holding the second
\* invocation's controller.
C33_Witness ==
    /\ started = 2
    /\ 1 \in ctrlAborted
    /\ Unfinished(1)
    /\ inv[2] = "reading"
    /\ 2 \notin ctrlAborted
    /\ syncing
    /\ abortControllerRef = 2
    /\ lastSyncTime = 0

\* ----------------------------------------------------------- never stuck
\* The newest invocation of syncNow has ended: its stream was exhausted or
\* its fetch or read failed, or it was stopped.
NewestEnded == started >= 1 /\ (inv[started] = "ended" \/ started \in ctrlAborted)
Cleared == ~syncing /\ abortControllerRef = 0

\* C34: when the newest invocation has ended, in whichever way, the flag is
\* false and the ref is empty, so that the guard of syncNow lets the next
\* invocation through; and, every awaited call settling, a page that is
\* syncing comes to that.
C34_NeverStuck ==
    /\ [](NewestEnded => Cleared)
    /\ [](syncing => started >= 1 /\ Unfinished(started) /\ abortControllerRef = started)
    /\ syncing ~> Cleared

\* The second invocation ended on a failed response: the failure is on top
\* of the log, the flag is false and the ref is empty.
C34_Witness ==
    /\ started = 2
    /\ inv[2] = "ended"
    /\ logs # <<>> /\ logs[1] = FailureEntry(2)
    /\ Cleared
    /\ lastSyncTime = 2

\* ------------------------------------------------- Stop Sync with no owner
StopWarnings == { j \in DOMAIN logs : logs[j].title = SyncStopped }
WarningAdded == logs' # logs /\ logs' # <<>> /\ logs'[1].title = SyncStopped

\* C35: the ref is empty exactly when the flag is false, which is so before
\* the first invocation, after an invocation has ended and after it was
\* stopped; a step taken with the ref empty aborts no controller, adds no
\* 'Sync Stopped' warning and does not clear the flag; a warning is added
\* only for the invocation whose controller is in the ref, not aborted
\* before, so no controller is aborted twice and the log, which holds the
\* lines of one invocation, has at most one such warning.
C35_StopWithoutOwner ==
    /\ [](/\ abortControllerRef = 0 <=> ~syncing
          /\ started = 0 => abortControllerRef = 0
          /\ (started >= 1 /\ (inv[started] = "ended" \/ started \in ctrlAborted)) =>
                abortControllerRef = 0
          /\ Cardinality(StopWarnings) <= 1
          /\ \A j \in StopWarnings : logs[j] = StopEntry(started))
    /\ [][ abortControllerRef = 0 =>
              /\ ctrlAborted' = ctrlAborted
              /\ ~WarningAdded ]_vars
    /\ [][ WarningAdded =>
              /\ logs' = << StopEntry(abortControllerRef) >> \o logs
              /\ abortControllerRef \notin ctrlAborted
              /\ ctrlAborted' = ctrlAborted \cup {abortControllerRef} ]_vars

\* The only invocation was stopped and has not finished yet: the ref is
\* empty, the flag is false and the log has the one warning on top of a
\* line read before.
C35_Witness ==
    /\ started = 1
    /\ ctrlAborted = {1}
    /\ Unfinished(1)
    /\ abortControllerRef = 0
    /\ ~syncing
    /\ Len(logs) = 2
    /\ StopWarnings = {1}

\* ------------------------------------------------------ closed exactly once
\* The way a pass came to its end.
EndedDone == pc = "closed" /\ Fetched /\ idx > Len(items)
EndedCancelled == pc = "closed" /\ Fetched /\ idx <= Len(items)
EndedFetchFailed == pc = "closed" /\ ~Fetched /\ FetchStarted
EndedOutside == pc = "closed" /\ ~Fetched /\ ~FetchStarted

\* C36: controller.close() is called at most once in a pass, and once when
\* the pass has ended, which it has in one of four ways: the batch done,
\* cancelled, the fetch of the batch failed, or a failure outside the try of
\* a record; after the close no line is enqueued and the pass takes no
\* step; and a pass that has started comes to its close.
C36_ClosedOnce ==
    /\ [](/\ closed \in {0, 1}
          /\ closed = 1 <=> pc = "closed"
          /\ pc = "closed" =>
                EndedDone \/ EndedCancelled \/ EndedFetchFailed \/ EndedOutside)
    /\ [][ closed = 1 /\ pass' = pass =>
              /\ events' = events
              /\ closed' = 1
              /\ pc' = "closed" ]_vars
    /\ [][ closed' # closed /\ pass' = pass => closed' = closed + 1 ]_vars
    /\ (pass = 1) ~> (closed = 1)

\* A pass was cancelled after its first record and closed its stream; the
\* last line is that record's.
C36_Witness ==
    /\ EndedCancelled
    /\ closed = 1
    /\ idx = 2
    /\ Len(items) = 3
    /\ events[Len(events)].rec = 1

====
